---- MODULE Spec2Model ----
(***************************************************************************)
(* Helix replay / execution simulator: order lifecycle manager, L2 book   *)
(* reconstructor, maker queue simulator, pending-taker heap and the run   *)
(* loop that couples them.                                                 *)
(*                                                                         *)
(* Quantities are integers in units of 1e-7 (1.0 is 10^7): the code's 1e-6 *)
(* is 10, and its 1e-9 lies below the grid, so that for grid values        *)
(* x + 1e-9 >= q is x >= q and x > q + 1e-9 is x > q.  Prices are integers *)
(* in units of 0.01, one tick (0.1) is 10; slippage is in units of 0.01    *)
(* tick.  Times are integer milliseconds.                                  *)
(***************************************************************************)
EXTENDS Integers, Sequences, FiniteSets, TLC

VARIABLES
    om,        \* OrderManager: orders_, next_order_id_, metrics_, error_
    om_ret,    \* the last OrderManager call and what it returned
    replay,    \* TickReplay: deltas_, delta_cursor_, last_seq_, last_ts_ms_, bids_, asks_, orderbook_
    eng,       \* run loop of main(): bus, maker_sim, pending_actions, fill_rows, ...
    call       \* the last call of a function of the engine made on its own: arguments and result

vars == <<om, om_ret, replay, eng, call>>

----------------------------------------------------------------------------
(* Units, bounds and program constants *)

OverfillTol == 10
One == 10000000
Half == One \div 2

MaxOrders == 2
MaxNoop == 1
MaxTs == 2

Min(a, b) == IF a < b THEN a ELSE b
Max(a, b) == IF a > b THEN a ELSE b

Sides == {"Buy", "Sell"}
OpenStatuses == {"New", "Partial"}
TerminalStatuses == {"Filled", "Cancelled", "Expired", "Replaced", "Rejected"}
OrderStatus == OpenStatuses \cup TerminalStatuses

----------------------------------------------------------------------------
(* OrderManager *)

OrderMetrics0 ==
    [orders_placed |-> 0, orders_cancelled |-> 0, orders_cancel_noop |-> 0,
     orders_rejected |-> 0, orders_replaced |-> 0, orders_replace_noop |-> 0,
     illegal_transitions |-> 0, orders_expired |-> 0, open_orders_peak |-> 0,
     lifetime_samples |-> 0]

OrderManager0 ==
    [orders |-> <<>>, next_order_id |-> 1, metrics |-> OrderMetrics0, error |-> FALSE]

\* The record of the last call made on the OrderManager from outside a run.
OmRet0 == [op |-> "none", id |-> 0, side |-> "Hold", qty |-> 0, success |-> FALSE, noop |-> FALSE]

\* No function called on its own yet.
Call0 == [op |-> "none"]

Known(m, id) == id \in DOMAIN m.orders

OpenCount(m) == Cardinality({i \in DOMAIN m.orders : m.orders[i].status \in OpenStatuses})

update_peak(m) ==
    IF OpenCount(m) > m.metrics.open_orders_peak
    THEN [m EXCEPT !.metrics.open_orders_peak = OpenCount(m)]
    ELSE m

\* Order OrderManager::place(action, now_ts, expire_ts)
place(m, a, now_ts, expire_ts) ==
    LET id == m.next_order_id
        ord == [order_id |-> id, side |-> a.side, type |-> a.type, price |-> a.limit_price,
                qty |-> a.size, filled_qty |-> 0, status |-> "New",
                replaced_by |-> 0, replaced_from |-> a.target_order_id,
                expire_ts |-> expire_ts]
    IN update_peak([m EXCEPT !.next_order_id = id + 1,
                             !.orders = Append(m.orders, ord),
                             !.metrics.orders_placed = @ + 1])

\* The statuses cancel(), replace() and apply_fill() test for before acting.
TerminalGuard == {"Filled", "Cancelled", "Expired", "Replaced"}

\* CancelResult OrderManager::cancel(order_id, now_ts): <<manager, success, noop>>
cancel(m, id, now_ts) ==
    IF ~Known(m, id)
    THEN <<[m EXCEPT !.metrics.orders_cancel_noop = @ + 1], FALSE, TRUE>>
    ELSE IF m.orders[id].status \in TerminalGuard
    THEN <<[m EXCEPT !.metrics.orders_cancel_noop = @ + 1], FALSE, TRUE>>
    ELSE <<[m EXCEPT !.orders[id].status = "Cancelled",
                     !.metrics.orders_cancelled = @ + 1,
                     !.metrics.lifetime_samples = @ + 1], TRUE, FALSE>>

\* ReplaceResult OrderManager::replace(order_id, new_price, new_qty, now_ts, expire_ts):
\* <<manager, success, noop, new order id or 0>>
replace(m, id, new_price, new_qty, now_ts, expire_ts) ==
    IF ~Known(m, id)
    THEN <<[m EXCEPT !.metrics.orders_replace_noop = @ + 1], FALSE, TRUE, 0>>
    ELSE IF m.orders[id].status \in TerminalGuard
    THEN <<[m EXCEPT !.metrics.orders_replace_noop = @ + 1], FALSE, TRUE, 0>>
    ELSE LET ord == m.orders[id]
             m1 == [m EXCEPT !.orders[id].status = "Replaced",
                             !.metrics.orders_replaced = @ + 1,
                             !.metrics.lifetime_samples = @ + 1]
             a == [side |-> ord.side, type |-> ord.type,
                   limit_price |-> IF new_price > 0 THEN new_price ELSE ord.price,
                   size |-> IF new_qty > 0 THEN new_qty ELSE ord.qty - ord.filled_qty,
                   target_order_id |-> ord.order_id]
             m2 == place(m1, a, now_ts, expire_ts)
             new_id == m1.next_order_id
         IN <<[m2 EXCEPT !.orders[id].replaced_by = new_id], TRUE, FALSE, new_id>>

set_error(m) == [m EXCEPT !.error = TRUE]

\* bool OrderManager::apply_fill(fill, now_ts): <<manager, accepted>>
apply_fill(m, fill, now_ts) ==
    IF ~Known(m, fill.order_id)
    THEN <<set_error(m), FALSE>>
    ELSE LET ord == m.orders[fill.order_id]
             new_filled == ord.filled_qty + fill.filled_qty
         IN IF ord.status \in TerminalGuard
            THEN <<[set_error(m) EXCEPT !.metrics.illegal_transitions = @ + 1], FALSE>>
            ELSE IF fill.side # ord.side
            THEN <<[set_error(m) EXCEPT !.metrics.illegal_transitions = @ + 1], FALSE>>
            ELSE IF new_filled > ord.qty + OverfillTol
            THEN <<[set_error(m) EXCEPT !.metrics.illegal_transitions = @ + 1], FALSE>>
            ELSE IF new_filled >= ord.qty
            THEN <<[m EXCEPT !.orders[fill.order_id].filled_qty = new_filled,
                             !.orders[fill.order_id].status = "Filled",
                             !.metrics.lifetime_samples = @ + 1], TRUE>>
            ELSE <<[m EXCEPT !.orders[fill.order_id].filled_qty = new_filled,
                             !.orders[fill.order_id].status = "Partial"], TRUE>>

\* void OrderManager::mark_rejected(order_id, now_ts)
mark_rejected(m, id, now_ts) ==
    IF Known(m, id) /\ m.orders[id].status \in OpenStatuses
    THEN [m EXCEPT !.orders[id].status = "Rejected",
                   !.metrics.orders_rejected = @ + 1,
                   !.metrics.lifetime_samples = @ + 1]
    ELSE m

\* A sweep that does not look at the status.
Expiring_any_status(m, now_ts) ==
    {i \in DOMAIN m.orders : /\ m.orders[i].expire_ts > 0
                             /\ now_ts >= m.orders[i].expire_ts}

\* The orders one expire_orders(now_ts) sweep moves to Expired.
Expiring(m, now_ts) ==
    {i \in DOMAIN m.orders : /\ m.orders[i].status \in OpenStatuses
                             /\ m.orders[i].expire_ts > 0
                             /\ now_ts >= m.orders[i].expire_ts}

\* The orders in which a loop over orders_, an unordered_map, can meet its entries.
IterationOrders(m) ==
    {order \in [DOMAIN m.orders -> DOMAIN m.orders] :
         \A i, j \in DOMAIN m.orders : i # j => order[i] # order[j]}

\* The body letting at most one order expire.
Expired_once(m, id, now_ts) ==
    IF id \in Expiring(m, now_ts) /\ \A i \in DOMAIN m.orders : m.orders[i].status # "Expired"
    THEN [m EXCEPT !.orders[id].status = "Expired",
                   !.metrics.orders_expired = @ + 1,
                   !.metrics.lifetime_samples = @ + 1]
    ELSE m

\* The body of the loop of expire_orders() for the order id
Expired(m, id, now_ts) ==
    IF id \in Expiring(m, now_ts)
    THEN [m EXCEPT !.orders[id].status = "Expired",
                   !.metrics.orders_expired = @ + 1,
                   !.metrics.lifetime_samples = @ + 1]
    ELSE m

\* The loop of expire_orders() from the k-th entry of order on
RECURSIVE ExpiredFrom(_, _, _, _)
ExpiredFrom(m, now_ts, order, k) ==
    IF k \notin DOMAIN order THEN m
    ELSE ExpiredFrom(Expired(m, order[k], now_ts), now_ts, order, k + 1)

\* void OrderManager::expire_orders(now_ts), the loop meeting orders_ in order
expire_orders(m, now_ts, order) == ExpiredFrom(m, now_ts, order, 1)

----------------------------------------------------------------------------
(* TickReplay: the L2 book reconstructor *)

Prices == {1000, 1010, 1020}
NoLevels == [p \in Prices |-> 0]

\* orderbook_ as rebuild_snapshot_from_maps() leaves it: ts_ms and the two level
\* lists, held as price -> qty (0: no level); bids are read in descending and asks
\* in ascending price order.
Book0 == [ts_ms |-> 0, bids |-> NoLevels, asks |-> NoLevels]

Replay0 ==
    [deltas |-> <<>>, delta_cursor |-> 0, last_seq |-> -1, last_ts_ms |-> 0,
     bids |-> NoLevels, asks |-> NoLevels, orderbook |-> Book0,
     trades |-> <<>>, trade_cursor |-> 0,
     ret |-> TRUE, warn |-> "",
     d |-> [seq |-> -1, prev_seq |-> -1, snapshot |-> FALSE, ts_ms |-> 0,
            side |-> "Hold", price |-> 0, qty |-> 0],
     seq_before |-> -1, ts_before |-> 0,
     snapshot_in_progress |-> FALSE]

Populated(levels) == {p \in Prices : levels[p] > 0}
MaxOf(S) == CHOOSE x \in S : \A y \in S : y <= x
MinOf(S) == CHOOSE x \in S : \A y \in S : x <= y

\* best_bid / best_ask / bid_size / ask_size as rebuild_snapshot_from_maps() sets them
best_bid(book) == IF Populated(book.bids) = {} THEN 0 ELSE MaxOf(Populated(book.bids))
best_ask(book) == IF Populated(book.asks) = {} THEN 0 ELSE MinOf(Populated(book.asks))
bid_size(book) == IF best_bid(book) = 0 THEN 0 ELSE book.bids[best_bid(book)]
ask_size(book) == IF best_ask(book) = 0 THEN 0 ELSE book.asks[best_ask(book)]

rebuild_snapshot_from_maps(r) ==
    [r EXCEPT !.orderbook = [ts_ms |-> r.last_ts_ms, bids |-> r.bids, asks |-> r.asks]]

\* The snapshot-in-progress flag of the book reconstructor's contract: set by a
\* snapshot or implicit snapshot (prev_seq = 0), cleared once both sides are populated.
\* apply_next_delta() below keeps no such flag; it is carried beside it.
InProgressAfter(r, d, bids, asks) ==
    LET started == d.snapshot \/ d.prev_seq = 0
        was == started \/ r.snapshot_in_progress
    IN was /\ ~(Populated(bids) # {} /\ Populated(asks) # {})

\* bool TickReplay::apply_next_delta(), d being deltas_[delta_cursor_]
apply_next_delta(r, d) ==
    LET r0 == [r EXCEPT !.delta_cursor = @ + 1, !.seq_before = r.last_seq,
                        !.ts_before = r.last_ts_ms, !.d = d]
        r1 == IF d.snapshot THEN [r0 EXCEPT !.bids = NoLevels, !.asks = NoLevels] ELSE r0
    IN IF ~d.snapshot /\ r.last_seq >= 0 /\ d.prev_seq > 0 /\ d.prev_seq # r.last_seq
       THEN [r1 EXCEPT !.ret = FALSE, !.warn = "seq gap"]
       ELSE LET r2 == [r1 EXCEPT !.last_seq = d.seq,
                                 !.last_ts_ms = IF d.ts_ms > 0 THEN d.ts_ms ELSE @ + 1]
            IN IF d.qty < 0
               THEN [r2 EXCEPT !.ret = FALSE, !.warn = "negative qty"]
               ELSE LET bids == IF d.side = "Buy" THEN [r2.bids EXCEPT ![d.price] = d.qty]
                                ELSE r2.bids
                        asks == IF d.side # "Buy" THEN [r2.asks EXCEPT ![d.price] = d.qty]
                                ELSE r2.asks
                    IN rebuild_snapshot_from_maps(
                           [r2 EXCEPT !.bids = bids, !.asks = asks, !.ret = TRUE,
                                      !.snapshot_in_progress = InProgressAfter(r, d, bids, asks)])

\* std::vector<TradePrint> TickReplay::drain_trades_up_to(ts_ms): the ordered prefix
\* of the unreleased trades with ts_ms <= now; the cursor moves past it.
\* <<replay, released trades>>
drain_trades_up_to(r, ts_ms) ==
    LET left == Len(r.trades) - r.trade_cursor
        n == CHOOSE k \in 0..left :
                 /\ \A i \in 1..k : r.trades[r.trade_cursor + i].ts_ms <= ts_ms
                 /\ (k = left \/ r.trades[r.trade_cursor + k + 1].ts_ms > ts_ms)
    IN <<[r EXCEPT !.trade_cursor = @ + n], SubSeq(r.trades, r.trade_cursor + 1, r.trade_cursor + n)>>

----------------------------------------------------------------------------
(* RingBuffer and the EventBus built on it *)

BusCapacity == 64

RingBuffer0 == [data |-> [i \in 0..(BusCapacity - 1) |-> "none"], head |-> 0, tail |-> 0]

increment(idx) == (idx + 1) % BusCapacity

\* bool RingBuffer::push(value): <<buffer, pushed>>
push(rb, value) ==
    LET next == increment(rb.head)
    IN IF next = rb.tail
       THEN <<rb, FALSE>>
       ELSE <<[rb EXCEPT !.data[rb.head] = value, !.head = next], TRUE>>

\* std::optional<T> RingBuffer::pop(): <<buffer, value or "none">>
pop(rb) ==
    IF rb.tail = rb.head
    THEN <<rb, "none">>
    ELSE <<[rb EXCEPT !.tail = increment(rb.tail)], rb.data[rb.tail]>>

publish(bus, event) == push(bus, event)
poll(bus) == pop(bus)

\* Events waiting on the bus.
BusSize(bus) == (bus.head - bus.tail + BusCapacity) % BusCapacity

----------------------------------------------------------------------------
(* Fills *)

\* Fill::filled(side, px, q, part, liquidity)
FillFilled(s, px, q, part, l) ==
    [order_id |-> 0, status |-> "Filled", reason |-> "None", side |-> s, liquidity |-> l,
     price |-> px, vwap_price |-> px, qty |-> q, filled_qty |-> q, unfilled_qty |-> 0,
     partial |-> part, levels_crossed |-> IF part THEN 1 ELSE 0, slippage_ticks |-> 0,
     via |-> "walk", print |-> 0]

\* Fill::rejected(side, reason)
FillRejected(s, r) ==
    [order_id |-> 0, status |-> "Rejected", reason |-> r, side |-> s, liquidity |-> "Taker",
     price |-> 0, vwap_price |-> 0, qty |-> 0, filled_qty |-> 0, unfilled_qty |-> 0,
     partial |-> FALSE, levels_crossed |-> 0, slippage_ticks |-> 0,
     via |-> "none", print |-> 0]

----------------------------------------------------------------------------
(* MakerQueueSim *)

TickSize == 10
QInitTenths == 8
AlphaTenths == 6
ExpireMs == 200
AdvTicks == 2

MakerQueueSim0 ==
    [orders |-> <<>>, last_bids |-> NoLevels, last_asks |-> NoLevels,
     curr_bids |-> NoLevels, curr_asks |-> NoLevels,
     q_init_tenths |-> QInitTenths, alpha_tenths |-> AlphaTenths]

\* double MakerQueueSim::level_qty(book, price, side)
level_qty(book, price, side) ==
    LET levels == IF side = "Buy" THEN book.bids ELSE book.asks
    IN IF price \in Prices THEN levels[price] ELSE 0

\* void MakerQueueSim::submit(action, book, now_ts)
submit(mk, action, book, now_ts) ==
    LET price == IF action.limit_price > 0 THEN action.limit_price
                 ELSE IF action.side = "Buy" THEN best_bid(book) ELSE best_ask(book)
        ord == [order_id |-> action.order_id, side |-> action.side, price |-> price,
                my_qty |-> action.size, submit_ts |-> now_ts, expire_ts |-> now_ts + ExpireMs,
                queue_ahead |-> (level_qty(book, price, action.side) * mk.q_init_tenths) \div 10]
    IN [mk EXCEPT !.orders = Append(@, ord)]

\* A cancel that looks at the front of orders_ only.
maker_cancel_front(mk, order_id) ==
    IF mk.orders # <<>> /\ Head(mk.orders).order_id = order_id
    THEN [mk EXCEPT !.orders = Tail(@)]
    ELSE mk

\* bool MakerQueueSim::cancel(order_id): the sim without the resting orders of that id
maker_cancel(mk, order_id) ==
    [mk EXCEPT !.orders = SelectSeq(@, LAMBDA o : o.order_id # order_id)]

update_level_maps(mk, book) == [mk EXCEPT !.curr_bids = book.bids, !.curr_asks = book.asks]

current_level_qty(mk, price, side) ==
    LET m == IF side = "Buy" THEN mk.curr_bids ELSE mk.curr_asks
    IN IF price \in Prices THEN m[price] ELSE 0

last_level_qty(mk, price, side) ==
    LET m == IF side = "Buy" THEN mk.last_bids ELSE mk.last_asks
    IN IF price \in Prices /\ m[price] > 0 THEN m[price] ELSE current_level_qty(mk, price, side)

\* The fill on_book() emits for fill_qty of a resting order, ord being the order after it;
\* via notes the phase that emitted it and print the place of its trade print in trades.
MakerFill(ord, fill_qty, via, print) ==
    LET f == FillFilled(ord.side, ord.price, fill_qty, ord.my_qty > 0, "Maker")
        penalty == AdvTicks * TickSize
        px == IF ord.side = "Buy" THEN f.price + penalty ELSE f.price - penalty
    IN [f EXCEPT !.order_id = ord.order_id, !.price = px, !.vwap_price = px,
                 !.unfilled_qty = ord.my_qty, !.levels_crossed = 1,
                 !.via = via, !.print = print]

Hits(ord, tp) ==
    \/ ord.side = "Buy" /\ tp.side = "Sell" /\ tp.price <= ord.price + TickSize
    \/ ord.side = "Sell" /\ tp.side = "Buy" /\ tp.price >= ord.price - TickSize

\* on_book(), trade phase of one resting order from the k-th print on: <<order, fills>>
RECURSIVE TradePhase(_, _, _, _)
TradePhase(ord, trades, k, fills) ==
    IF k \notin DOMAIN trades THEN <<ord, fills>>
    ELSE LET tp == trades[k]
         IN IF ~Hits(ord, tp) \/ ord.my_qty <= 0
            THEN TradePhase(ord, trades, k + 1, fills)
            ELSE LET burn == Min(ord.queue_ahead, tp.size)
                     remaining_trade == tp.size - burn
                     fill_qty == Min(ord.my_qty, remaining_trade)
                     o2 == [ord EXCEPT !.queue_ahead = @ - burn, !.my_qty = @ - fill_qty]
                 IN TradePhase(o2, trades, k + 1,
                               IF fill_qty > 0 THEN Append(fills, MakerFill(o2, fill_qty, "trade", k))
                               ELSE fills)

\* The depth phase taking the whole previous quantity of the level for its decrease.
DepthPhase_whole_level(mk, ord, fills) ==
    LET delta_down == last_level_qty(mk, ord.price, ord.side)
    IN IF delta_down > 0 /\ ord.my_qty > 0
       THEN LET consume_ahead == Min(ord.queue_ahead, (delta_down * mk.alpha_tenths) \div 10)
                remaining_delta == delta_down - consume_ahead
                fill_qty == Min(ord.my_qty, remaining_delta)
                o2 == [ord EXCEPT !.queue_ahead = @ - consume_ahead, !.my_qty = @ - fill_qty]
            IN <<o2, IF fill_qty > 0 THEN Append(fills, MakerFill(o2, fill_qty, "depth", 0)) ELSE fills>>
       ELSE <<ord, fills>>

\* The depth phase filling all that is left of the level's decrease, whatever the
\* order still wants.
DepthPhase_unclamped(mk, ord, fills) ==
    LET prev_qty == last_level_qty(mk, ord.price, ord.side)
        curr_qty == current_level_qty(mk, ord.price, ord.side)
        delta_down == Max(0, prev_qty - curr_qty)
    IN IF delta_down > 0 /\ ord.my_qty > 0
       THEN LET consume_ahead == Min(ord.queue_ahead, (delta_down * mk.alpha_tenths) \div 10)
                fill_qty == delta_down - consume_ahead
                o2 == [ord EXCEPT !.queue_ahead = @ - consume_ahead, !.my_qty = @ - fill_qty]
            IN <<o2, IF fill_qty > 0 THEN Append(fills, MakerFill(o2, fill_qty, "depth", 0)) ELSE fills>>
       ELSE <<ord, fills>>

\* on_book(), depth phase of one resting order: <<order, fills>>
DepthPhase(mk, ord, fills) ==
    LET prev_qty == last_level_qty(mk, ord.price, ord.side)
        curr_qty == current_level_qty(mk, ord.price, ord.side)
        delta_down == Max(0, prev_qty - curr_qty)
    IN IF delta_down > 0 /\ ord.my_qty > 0
       THEN LET consume_ahead == Min(ord.queue_ahead, (delta_down * mk.alpha_tenths) \div 10)
                remaining_delta == delta_down - consume_ahead
                fill_qty == Min(ord.my_qty, remaining_delta)
                o2 == [ord EXCEPT !.queue_ahead = @ - consume_ahead, !.my_qty = @ - fill_qty]
            IN <<o2, IF fill_qty > 0 THEN Append(fills, MakerFill(o2, fill_qty, "depth", 0)) ELSE fills>>
       ELSE <<ord, fills>>

\* on_book(), the loop over orders_: <<remaining, fills>>
RECURSIVE OnBookOrders(_, _, _, _, _, _)
OnBookOrders(mk, orders, now_ts, trades, remaining, fills) ==
    IF orders = <<>> THEN <<remaining, fills>>
    ELSE LET t == TradePhase(Head(orders), trades, 1, fills)
             d == DepthPhase(mk, t[1], t[2])
             ord == d[1]
             keep == ord.my_qty > 0 /\ ~(now_ts >= ord.expire_ts)
         IN OnBookOrders(mk, Tail(orders), now_ts, trades,
                         IF keep THEN Append(remaining, ord) ELSE remaining, d[2])

\* std::vector<Fill> MakerQueueSim::on_book(book, now_ts, trades): <<sim, fills>>
on_book(mk, book, now_ts, trades) ==
    LET mk1 == update_level_maps(mk, book)
        r == OnBookOrders(mk1, mk1.orders, now_ts, trades, <<>>, <<>>)
    IN <<[mk1 EXCEPT !.orders = r[1], !.last_bids = mk1.curr_bids, !.last_asks = mk1.curr_asks],
         r[2]>>

----------------------------------------------------------------------------
(* MatchingEngine: the taker walk of the book *)

QtyStep == One \div 1000

RECURSIVE SortedAsc(_)
SortedAsc(S) == IF S = {} THEN <<>> ELSE <<MinOf(S)>> \o SortedAsc(S \ {MinOf(S)})

RECURSIVE SortedDesc(_)
SortedDesc(S) == IF S = {} THEN <<>> ELSE <<MaxOf(S)>> \o SortedDesc(S \ {MaxOf(S)})

\* side_levels(book, side): the prices of the opposite side in book order
side_levels(book, side) ==
    IF side = "Buy" THEN SortedAsc(Populated(book.asks)) ELSE SortedDesc(Populated(book.bids))

best_price_for_side(book, side) == IF side = "Buy" THEN best_ask(book) ELSE best_bid(book)

\* The level loop of simulate(): w holds remaining, filled, notional (lots x price)
\* and levels_crossed.
RECURSIVE Walk(_, _, _, _)
Walk(book, side, levels, w) ==
    IF levels = <<>> \/ w.remaining <= 0 THEN w
    ELSE LET px == Head(levels)
             lvl_qty == IF side = "Buy" THEN book.asks[px] ELSE book.bids[px]
             traded == Min(w.remaining, lvl_qty)
         IN Walk(book, side, Tail(levels),
                 [remaining |-> w.remaining - traded, filled |-> w.filled + traded,
                  notional |-> w.notional + (traded \div QtyStep) * px,
                  levels_crossed |-> w.levels_crossed + 1])

\* simulate() leaving unfilled_qty at the 0.0 Fill::filled() gives it
simulate_unfilled_zero(action, book) ==
    IF action.side \notin Sides THEN FillRejected(action.side, "BadSide")
    ELSE IF action.size <= 0 THEN FillRejected(action.side, "ZeroQty")
    ELSE LET levels == side_levels(book, action.side)
         IN IF levels = <<>>
            THEN FillRejected(action.side, IF action.side = "Buy" THEN "NoAsk" ELSE "NoBid")
            ELSE LET w == Walk(book, action.side, levels,
                               [remaining |-> action.size, filled |-> 0, notional |-> 0,
                                levels_crossed |-> 0])
                 IN IF w.filled <= 0 THEN FillRejected(action.side, "NoLiquidity")
                    ELSE LET vwap == w.notional \div (w.filled \div QtyStep)
                             best_price == best_price_for_side(book, action.side)
                         IN [order_id |-> 0, status |-> "Filled", reason |-> "None",
                             side |-> action.side, liquidity |-> "Taker",
                             price |-> vwap, vwap_price |-> vwap,
                             qty |-> w.filled, filled_qty |-> w.filled,
                             unfilled_qty |-> 0,
                             partial |-> w.remaining > 0,
                             levels_crossed |-> w.levels_crossed,
                             slippage_ticks |->
                                 IF best_price <= 0 THEN 0
                                 ELSE IF action.side = "Buy"
                                 THEN ((vwap - best_price) * 100) \div TickSize
                                 ELSE ((best_price - vwap) * 100) \div TickSize]

\* Fill MatchingEngine::simulate(action, book), reject_on_insufficient_depth off
simulate(action, book) ==
    IF action.side \notin Sides THEN FillRejected(action.side, "BadSide")
    ELSE IF action.size <= 0 THEN FillRejected(action.side, "ZeroQty")
    ELSE LET levels == side_levels(book, action.side)
         IN IF levels = <<>>
            THEN FillRejected(action.side, IF action.side = "Buy" THEN "NoAsk" ELSE "NoBid")
            ELSE LET w == Walk(book, action.side, levels,
                               [remaining |-> action.size, filled |-> 0, notional |-> 0,
                                levels_crossed |-> 0])
                 IN IF w.filled <= 0 THEN FillRejected(action.side, "NoLiquidity")
                    ELSE LET vwap == w.notional \div (w.filled \div QtyStep)
                             best_price == best_price_for_side(book, action.side)
                         IN [order_id |-> 0, status |-> "Filled", reason |-> "None",
                             side |-> action.side, liquidity |-> "Taker",
                             price |-> vwap, vwap_price |-> vwap,
                             qty |-> w.filled, filled_qty |-> w.filled,
                             unfilled_qty |-> Max(w.remaining, 0),
                             partial |-> w.remaining > 0,
                             levels_crossed |-> w.levels_crossed,
                             slippage_ticks |->
                                 IF best_price <= 0 THEN 0
                                 ELSE IF action.side = "Buy"
                                 THEN ((vwap - best_price) * 100) \div TickSize
                                 ELSE ((best_price - vwap) * 100) \div TickSize]

\* simulate() of an engine that never looks at reject_on_insufficient_depth
Simulated_flag_ignored(action, book, reject_on_insufficient_depth) == simulate(action, book)

\* Fill MatchingEngine::simulate(action, book) of an engine built with that
\* reject_on_insufficient_depth: when set, a walk that leaves remaining > 0 after
\* filling something returns Fill::rejected(side, NoLiquidity).
Simulated(action, book, reject_on_insufficient_depth) ==
    IF /\ reject_on_insufficient_depth
       /\ simulate(action, book).status = "Filled"
       /\ simulate(action, book).partial
    THEN FillRejected(action.side, "NoLiquidity")
    ELSE simulate(action, book)

----------------------------------------------------------------------------
(* RulesEngine, RiskEngine, is_crossing_limit *)

MinQty == QtyStep
MinNotional == 500000
MaxPosition == 5 * One
MaxNotional == 250000

\* Action{}; demo is issued_demo of the iteration that built the action, which main()
\* carries next to it.
Action0 ==
    [kind |-> "Place", order_id |-> 0, target_order_id |-> 0, type |-> "Market",
     side |-> "Hold", size |-> 0, is_maker |-> FALSE, limit_price |-> 0,
     notional |-> 0, demo |-> FALSE]

floor_to_step(value, step) == (value \div step) * step
ceil_to_step(value, step) == ((value + step - 1) \div step) * step

ref_price_for_action(action, book) ==
    IF action.limit_price > 0 THEN action.limit_price
    ELSE IF action.side = "Buy"
    THEN (IF best_ask(book) > 0 THEN best_ask(book) ELSE best_bid(book))
    ELSE IF action.side = "Sell"
    THEN (IF best_bid(book) > 0 THEN best_bid(book) ELSE best_ask(book))
    ELSE 0

\* The price quantized the other way: a Buy up, a Sell down.
norm_price_into_book(action, book) ==
    IF action.limit_price > 0
    THEN (IF action.side = "Buy" THEN ceil_to_step(action.limit_price, TickSize)
          ELSE floor_to_step(action.limit_price, TickSize))
    ELSE IF action.is_maker
    THEN (IF action.side = "Buy" THEN floor_to_step(best_bid(book), TickSize)
          ELSE ceil_to_step(best_ask(book), TickSize))
    ELSE action.limit_price

\* norm_price of RulesEngine::apply: a Buy floored and a Sell ceiled to tick_size
norm_price(action, book) ==
    IF action.limit_price > 0
    THEN (IF action.side = "Buy" THEN floor_to_step(action.limit_price, TickSize)
          ELSE ceil_to_step(action.limit_price, TickSize))
    ELSE IF action.is_maker
    THEN (IF action.side = "Buy" THEN floor_to_step(best_bid(book), TickSize)
          ELSE ceil_to_step(best_ask(book), TickSize))
    ELSE action.limit_price

\* RulesResult RulesEngine::apply(action, book): [ok, reason, normalized]
rules_apply(action, book) ==
    IF action.side \notin Sides THEN [ok |-> FALSE, reason |-> "BadSide", normalized |-> action]
    ELSE IF action.size <= 0 THEN [ok |-> FALSE, reason |-> "ZeroQty", normalized |-> action]
    ELSE LET norm_qty == floor_to_step(action.size, QtyStep)
             normalized == [action EXCEPT !.size = norm_qty, !.limit_price = norm_price(action, book)]
             ref_price == ref_price_for_action(normalized, book)
         IN IF norm_qty < MinQty THEN [ok |-> FALSE, reason |-> "MinQty", normalized |-> action]
            ELSE IF ~(ref_price > 0)
            THEN [ok |-> FALSE, reason |-> "PriceInvalid", normalized |-> normalized]
            ELSE IF (norm_qty \div QtyStep) * ref_price < MinNotional
            THEN [ok |-> FALSE, reason |-> "MinNotional", normalized |-> normalized]
            ELSE [ok |-> TRUE, reason |-> "None", normalized |-> normalized]

Abs(x) == IF x < 0 THEN -x ELSE x

\* Doubles that are quotients of the integers of the model are kept exact, as reduced
\* fractions n / d with d > 0.
RECURSIVE GCD(_, _)
GCD(a, b) == IF b = 0 THEN a ELSE GCD(b, a % b)

Rat(n, d) ==
    LET g == GCD(Abs(n), Abs(d))
    IN IF d < 0 THEN [n |-> (-n) \div g, d |-> (-d) \div g]
       ELSE [n |-> n \div g, d |-> d \div g]

RatInt(k) == [n |-> k, d |-> 1]
RatAdd(a, b) == Rat(a.n * b.d + b.n * a.d, a.d * b.d)
RatSub(a, b) == Rat(a.n * b.d - b.n * a.d, a.d * b.d)
RatScale(a, k) == Rat(a.n * k, a.d)
RatDiv(a, k) == Rat(a.n, a.d * k)
RatAbs(a) == [n |-> Abs(a.n), d |-> a.d]
RatLeq(a, b) == a.n * b.d <= b.n * a.d

\* A quantity in steps of QtyStep; price x Lots is in 1e-5 of the quote currency
Lots(qty) == IF qty < 0 THEN -((-qty) \div QtyStep) ELSE qty \div QtyStep

\* struct Position; avg_price in price units, realized_pnl in price x Lots
Position0 == [qty |-> 0, avg_price |-> RatInt(0), realized_pnl |-> RatInt(0)]

\* bool RiskEngine::validate(action, last_price); the notional is lots x price, of
\* which One \div 100 make one quote unit
risk_validate(position, action, last_price) ==
    LET projected_qty == IF action.side = "Buy" THEN position.qty + action.size
                         ELSE IF action.side = "Sell" THEN position.qty - action.size
                         ELSE position.qty
        projected_notional == (Abs(projected_qty) \div QtyStep) * Abs(last_price)
        whole == projected_notional \div (One \div 100)
        part == projected_notional % (One \div 100)
    IN /\ Abs(projected_qty) <= MaxPosition
       /\ (whole < MaxNotional \/ (whole = MaxNotional /\ part = 0))

\* RiskEngine::update realizing on every fill that meets an open position
Realized_any_side(position, price, signed_qty) ==
    IF position.qty # 0
    THEN RatAdd(position.realized_pnl,
                RatScale(RatSub(RatInt(price), position.avg_price),
                         Lots(Min(Abs(position.qty), Abs(signed_qty)))
                         * (IF position.qty > 0 THEN 1 ELSE -1)))
    ELSE position.realized_pnl

\* RiskEngine::update: realized PnL when reducing or flipping
Realized(position, price, signed_qty) ==
    IF position.qty # 0 /\ ((position.qty > 0 /\ signed_qty < 0) \/ (position.qty < 0 /\ signed_qty > 0))
    THEN RatAdd(position.realized_pnl,
                RatScale(RatSub(RatInt(price), position.avg_price),
                         Lots(Min(Abs(position.qty), Abs(signed_qty)))
                         * (IF position.qty > 0 THEN 1 ELSE -1)))
    ELSE position.realized_pnl

\* RiskEngine::update: the average price after the fill
AvgPrice(position, price, signed_qty) ==
    IF position.qty + signed_qty = 0 THEN RatInt(0)
    ELSE RatDiv(RatAdd(RatScale(position.avg_price, Lots(position.qty)),
                       RatInt(price * Lots(signed_qty))),
                Lots(position.qty + signed_qty))

\* void RiskEngine::update(fill)
risk_update(position, fill) ==
    LET signed_qty == IF fill.side = "Buy" THEN fill.qty ELSE -fill.qty
    IN [qty |-> position.qty + signed_qty,
        avg_price |-> AvgPrice(position, fill.price, signed_qty),
        realized_pnl |-> Realized(position, fill.price, signed_qty)]

\* is_crossing_limit() with strict comparisons: a limit at the opposite top does not cross
is_crossing_limit_strict(action, book) ==
    IF action.limit_price <= 0 THEN FALSE
    ELSE IF action.side = "Buy"
    THEN best_ask(book) > 0 /\ action.limit_price > best_ask(book)
    ELSE IF action.side = "Sell"
    THEN best_bid(book) > 0 /\ action.limit_price < best_bid(book)
    ELSE FALSE

\* bool is_crossing_limit(action, book)
is_crossing_limit(action, book) ==
    IF action.limit_price <= 0 THEN FALSE
    ELSE IF action.side = "Buy"
    THEN best_ask(book) > 0 /\ action.limit_price >= best_ask(book)
    ELSE IF action.side = "Sell"
    THEN best_bid(book) > 0 /\ action.limit_price <= best_bid(book)
    ELSE FALSE

----------------------------------------------------------------------------
(* The pending-taker heap: std::priority_queue<PendingAction, std::vector, PendingComparator>, *)
(* a vector kept as a binary heap by std::push_heap / std::pop_heap; position i of the       *)
(* vector is element i + 1 of the sequence                                                   *)

PendingComparator(a, b) == a.fill_ts > b.fill_ts

\* sift the value up from the hole towards the top
RECURSIVE PushHeap(_, _, _)
PushHeap(h, hole, value) ==
    LET parent == (hole - 1) \div 2
    IN IF hole > 0 /\ PendingComparator(h[parent + 1], value)
       THEN PushHeap([h EXCEPT ![hole + 1] = h[parent + 1]], parent, value)
       ELSE [h EXCEPT ![hole + 1] = value]

\* move the hole down along the larger children: <<vector, hole>>
RECURSIVE AdjustDown(_, _, _)
AdjustDown(h, hole, len) ==
    IF hole < (len - 1) \div 2
    THEN LET right == 2 * (hole + 1)
             child == IF PendingComparator(h[right + 1], h[right]) THEN right - 1 ELSE right
         IN AdjustDown([h EXCEPT ![hole + 1] = h[child + 1]], child, len)
    ELSE <<h, hole>>

\* pending_actions.push(p)
pending_push(h, p) == PushHeap(Append(h, p), Len(h), p)

\* pending_actions.top()
pending_top(h) == h[1]

\* pending_actions.pop()
pending_pop(h) ==
    IF Len(h) <= 1 THEN <<>>
    ELSE LET len == Len(h) - 1
             value == h[Len(h)]
             d == AdjustDown(SubSeq(h, 1, len), 0, len)
             lone == len % 2 = 0 /\ d[2] = (len - 2) \div 2
             h2 == IF lone THEN [d[1] EXCEPT ![d[2] + 1] = d[1][2 * (d[2] + 1)]] ELSE d[1]
             hole == IF lone THEN 2 * (d[2] + 1) - 1 ELSE d[2]
         IN PushHeap(h2, hole, value)

----------------------------------------------------------------------------
(* main(): the run loop.  st is the whole program state [om, replay, eng].   *)

LatencyBase == 8
LatencyJitter == 4

\* What deterministic_latency_ms() can return, floored as fill_ts takes it: the base
\* plus a jitter drawn from a generator seeded by the action's sequence number.
Latencies == {LatencyBase, LatencyBase + LatencyJitter}

DemoIntervalMs == 500
DemoMaxActions == 30
MakerIntervalMs == 500
MakerMaxActions == 30

\* The flags of the command line that steer the issuing of actions, at their defaults.
AdvHorizonMs == 100

Flags0 ==
    [no_actions |-> FALSE, demo_notional |-> 0, demo_only |-> FALSE, maker_demo |-> FALSE,
     maker_notional |-> 0, adv_fatal_missing |-> TRUE]

\* last_demo_ts, demo_sent, last_maker_demo_ts, maker_demo_sent
Demo0 == [last_demo_ts |-> 0, demo_sent |-> 0, last_maker_demo_ts |-> 0, maker_demo_sent |-> 0]

\* FeeConfig of main(): maker_bps 2, taker_bps 6
MakerBps == 2
TakerBps == 6

\* No summary written yet
Summary0 ==
    [written |-> FALSE, realized |-> RatInt(0), unrealized |-> RatInt(0), fees |-> 0,
     net_total |-> RatInt(0), identity_ok |-> TRUE]

\* What handle_fill() books a fill into: the position with its realized PnL, the fees
\* paid and the rows of the fills ledger.
Ledger0 == [position |-> Position0, fees |-> 0, fill_rows |-> <<>>]
Ledger(st) ==
    [position |-> st.eng.position, fees |-> st.eng.fees, fill_rows |-> st.eng.fill_rows]

Engine0 ==
    [bus |-> RingBuffer0, maker |-> MakerQueueSim0, pending |-> <<>>, action_seq |-> 0,
     cancelled_orders |-> {}, maker_open_orders |-> {}, pending_order_ids |-> {},
     position |-> Position0, fill_rows |-> <<>>, dispatched |-> <<>>,
     ticks |-> 0, phase |-> "run", exit_code |-> 0, steps |-> <<>>,
     released |-> <<>>, after_error |-> 0,
     flags |-> Flags0, no_actions |-> FALSE, demo |-> Demo0,
     fees |-> 0, summary |-> Summary0,
     pending_maker_adv |-> <<>>, adv_resolved |-> <<>>,
     before_fill |-> Ledger0, refused |-> <<>>]

\* main() up to the loop for a command line carrying flags: the demo flags switch
\* no_actions off, and --maker_demo sets the maker parameters q_init = 0, alpha = 1.
Started(flags) ==
    [Engine0 EXCEPT !.flags = flags,
                    !.no_actions = flags.no_actions /\ ~(flags.demo_notional > 0 \/ flags.maker_demo),
                    !.maker.q_init_tenths = IF flags.maker_demo THEN 0 ELSE @,
                    !.maker.alpha_tenths = IF flags.maker_demo THEN 10 ELSE @]

StatusOf(m, id) == IF Known(m, id) THEN m.orders[id].status ELSE "None"

\* v named inside F: a local of the code that is computed once and read several times
With(v, F(_)) == F(v)

\* now_ts of the iteration
Now(st) == st.replay.orderbook.ts_ms

\* return 1 out of main()
Fatal(st) == [st EXCEPT !.eng.phase = "done", !.eng.exit_code = 1]

close_order_tracking(st, order_id) ==
    IF Known(st.om, order_id) /\ st.om.orders[order_id].status \in TerminalStatuses
    THEN [st EXCEPT !.eng.maker_open_orders = @ \ {order_id},
                    !.eng.pending_order_ids = @ \ {order_id},
                    !.eng.cancelled_orders = @ \ {order_id}]
    ELSE st

\* A row of the fills ledger; at is the status the order had when the row was written.
FillRow(st, fill, liquidity, src) ==
    [order_id |-> fill.order_id, ts_ms |-> st.replay.orderbook.ts_ms,
     seq |-> st.replay.last_seq, status |-> fill.status, side |-> fill.side,
     liquidity |-> liquidity, src |-> src, reason |-> fill.reason,
     vwap |-> fill.vwap_price, filled_qty |-> fill.filled_qty,
     at |-> StatusOf(st.om, fill.order_id)]

handle_reject(st, fill, src) ==
    [st EXCEPT !.eng.fill_rows = Append(@, FillRow(st, fill, "NONE", src)),
               !.eng.bus = publish(@, "Fill")[1]]

\* FeeModel::compute(fill).fee under the default FeeConfig, rounding ceil_to_cent, in
\* 1e-5 of the quote currency: a cent is 1000 of them
fee_compute(fill) ==
    IF fill.status # "Filled" \/ fill.filled_qty <= 0 \/ fill.vwap_price <= 0 THEN 0
    ELSE With(fill.vwap_price * Lots(fill.filled_qty)
                  * (IF fill.liquidity = "Maker" THEN MakerBps ELSE TakerBps),
              LAMBDA scaled : 1000 * ((scaled + 10000000 - 1) \div 10000000))

\* mid of handle_fill, doubled: the sum of the tops, or twice the fill's vwap_price
\* when a side of the book is empty
FillMid2(st, fill) ==
    IF best_bid(st.replay) > 0 /\ best_ask(st.replay) > 0
    THEN best_bid(st.replay) + best_ask(st.replay)
    ELSE 2 * fill.vwap_price

\* PendingMakerAdv of a maker fill written as row row_idx; missed counts the books
\* at or past target_ts_ms the sample has been carried over, missed_mid those of
\* them that had both tops
PendingMakerAdv(st, fill, row_idx) ==
    [fill_row_index |-> row_idx, side |-> fill.side, mid2_at_fill |-> FillMid2(st, fill),
     target_ts_ms |-> st.replay.orderbook.ts_ms + AdvHorizonMs, missed |-> 0, missed_mid |-> 0]

handle_fill(st, fill, src) ==
    [st EXCEPT !.eng.after_error = IF st.om.error THEN @ + 1 ELSE @,
               !.eng.before_fill = Ledger(st),
               !.eng.pending_maker_adv =
                   IF fill.liquidity = "Maker" /\ FillMid2(st, fill) > 0
                   THEN Append(@, PendingMakerAdv(st, fill, Len(st.eng.fill_rows) + 1))
                   ELSE @,
               !.eng.position = risk_update(@, fill),
               !.eng.fees = @ + fee_compute(fill),
               !.eng.fill_rows = Append(@, FillRow(st, fill, fill.liquidity, src)),
               !.eng.bus = publish(@, "Fill")[1],
               !.eng.steps = Append(@, IF src = "MAKER" THEN "maker_fill" ELSE "taker_fill")]

\* order_manager.apply_fill(fill, now_ts) and order_manager.mark_rejected(id, now_ts)
\* A refusal is noted with the books as they were before handle_fill() and as they are.
ApplyFill(st, fill, now_ts) ==
    [st EXCEPT !.om = apply_fill(@, fill, now_ts)[1],
               !.eng.refused = IF apply_fill(st.om, fill, now_ts)[2] THEN @
                               ELSE Append(@, [before |-> st.eng.before_fill,
                                               after |-> Ledger(st)])]
MarkRejected(st, order_id, now_ts) == [st EXCEPT !.om = mark_rejected(@, order_id, now_ts)]

\* bool TickReplay::feed_next(bus): <<st, fed>>
feed_next(st) ==
    IF st.replay.delta_cursor >= Len(st.replay.deltas) THEN <<st, FALSE>>
    ELSE With(apply_next_delta(st.replay, st.replay.deltas[st.replay.delta_cursor + 1]),
              LAMBDA r :
                  IF ~r.ret THEN <<[st EXCEPT !.replay = r], FALSE>>
                  ELSE With(publish(st.eng.bus, "Tick"),
                            LAMBDA p : <<[st EXCEPT !.replay = r, !.eng.bus = p[1]], p[2]>>))

\* The sweep after expire_orders(): every Expired order leaves the maker sim.
RECURSIVE ExpiredSweep(_, _, _)
ExpiredSweep(st, order, k) ==
    IF k \notin DOMAIN order THEN st
    ELSE IF st.om.orders[order[k]].status # "Expired" THEN ExpiredSweep(st, order, k + 1)
    ELSE ExpiredSweep(close_order_tracking(
                          [st EXCEPT !.eng.maker = maker_cancel(st.eng.maker, order[k])], order[k]),
                      order, k + 1)

ExpireStage(st, order) ==
    ExpiredSweep([st EXCEPT !.om = expire_orders(st.om, Now(st), order)], order, 1)

\* The loop over the fills on_book() returned.
RECURSIVE MakerFills(_, _, _)
MakerFills(st, fills, now_ts) ==
    IF fills = <<>> THEN st
    ELSE IF Head(fills).status # "Filled" THEN MakerFills(st, Tail(fills), now_ts)
    ELSE With(ApplyFill(handle_fill(st, Head(fills), "MAKER"), Head(fills), now_ts),
              LAMBDA s :
                  IF s.om.error THEN Fatal(s)
                  ELSE MakerFills(close_order_tracking(s, Head(fills).order_id),
                                  Tail(fills), now_ts))

\* The trades a drain hands to on_book(), noted by their place in the input and the
\* now_ts of the iteration.
Release(released, cursor, n, now_ts) ==
    released \o [i \in 1..n |-> [index |-> cursor + i, now_ts |-> now_ts]]

\* The stage draining up to a time to live past now_ts.
MakerStage_ahead(st) ==
    With(drain_trades_up_to(st.replay, Now(st) + ExpireMs),
         LAMBDA drained :
             IF st.eng.no_actions THEN [st EXCEPT !.replay = drained[1]]
             ELSE With(on_book(st.eng.maker, st.replay.orderbook, Now(st), drained[2]),
                       LAMBDA booked :
                           MakerFills([st EXCEPT !.replay = drained[1], !.eng.maker = booked[1],
                                                 !.eng.released = Release(st.eng.released,
                                                                          st.replay.trade_cursor,
                                                                          Len(drained[2]), Now(st))],
                                      booked[2], Now(st))))

\* drain_trades_up_to(), on_book() and the loop over its fills
MakerStage(st) ==
    With(drain_trades_up_to(st.replay, Now(st)),
         LAMBDA drained :
             IF st.eng.no_actions THEN [st EXCEPT !.replay = drained[1]]
             ELSE With(on_book(st.eng.maker, st.replay.orderbook, Now(st), drained[2]),
                       LAMBDA booked :
                           MakerFills([st EXCEPT !.replay = drained[1], !.eng.maker = booked[1],
                                                 !.eng.released = Release(st.eng.released,
                                                                          st.replay.trade_cursor,
                                                                          Len(drained[2]), Now(st))],
                                      booked[2], Now(st))))

\* One entry of the dispatch record: the popped entry, its order's status and the book
\* it met, what simulate() returned for it, what became of it, and whether its
\* iteration left alone everything but the heap and pending_order_ids.
Dispatch(st, pending, sim, outcome, flush) ==
    [order_id |-> pending.order_id, fill_ts |-> pending.fill_ts, seq |-> pending.seq,
     crossing |-> pending.crossing, side |-> pending.action.side, size |-> pending.action.size,
     status |-> StatusOf(st.om, pending.order_id),
     book_ts |-> st.replay.orderbook.ts_ms, book |-> st.replay.orderbook,
     sim |-> sim, outcome |-> outcome, flush |-> flush, silent |-> FALSE]

\* No call of simulate()
NoSim == [status |-> "None"]

\* pending_actions.pop() with its entry recorded
Popped(st, pending, sim, outcome, flush) ==
    [st EXCEPT !.eng.pending = pending_pop(@),
               !.eng.dispatched = Append(@, Dispatch(st, pending, sim, outcome, flush)),
               !.eng.after_error = IF st.om.error THEN @ + 1 ELSE @]

\* pending_order_ids.erase(pending.order_id)
Settled(st, pending) == [st EXCEPT !.eng.pending_order_ids = @ \ {pending.order_id}]

\* src of a row: "DEMO" for an action of the demo issuer
SrcOf(action) == IF action.demo THEN "DEMO" ELSE "STRAT"

\* The fee_sanity test of a fill against the target notional of its action, both in
\* price x lots: exit(1) when the fill's notional exceeds the target by over 0.1%.
FeeSane(pending, fill) ==
    ~(/\ pending.action.notional > 0
      /\ (fill.vwap_price * (fill.filled_qty \div QtyStep) - pending.action.notional) * 1000
             > pending.action.notional)

\* The book with the quantity of a fill taken off the top level it walked.
Consumed(book, fill) ==
    IF fill.side = "Buy" /\ best_ask(book) > 0
    THEN [book EXCEPT !.asks[best_ask(book)] = Max(0, @ - fill.filled_qty)]
    ELSE IF fill.side = "Sell" /\ best_bid(book) > 0
    THEN [book EXCEPT !.bids[best_bid(book)] = Max(0, @ - fill.filled_qty)]
    ELSE book

\* The popped entry filled, its quantity taken off the book.
PendingFill_consuming(st, pending, fill, now_ts, flush) ==
    With(ApplyFill(handle_fill(Popped(st, pending, fill, "fill", flush), fill, SrcOf(pending.action)),
                   fill, now_ts),
         LAMBDA s :
             IF s.om.error THEN Fatal(s)
             ELSE [Settled(close_order_tracking(s, fill.order_id), pending)
                      EXCEPT !.replay.orderbook = Consumed(@, fill)])

\* The popped entry filled, has_error() not looked at.
PendingFill_unchecked(st, pending, fill, now_ts, flush) ==
    With(ApplyFill(handle_fill(Popped(st, pending, fill, "fill", flush), fill, SrcOf(pending.action)),
                   fill, now_ts),
         LAMBDA s : Settled(close_order_tracking(s, fill.order_id), pending))

\* The popped entry filled
PendingFill(st, pending, fill, now_ts, flush) ==
    With(ApplyFill(handle_fill(Popped(st, pending, fill, "fill", flush), fill, SrcOf(pending.action)),
                   fill, now_ts),
         LAMBDA s :
             IF s.om.error THEN Fatal(s)
             ELSE Settled(close_order_tracking(s, fill.order_id), pending))

\* The popped entry was rejected by the matching engine
PendingReject(st, pending, fill, now_ts, flush) ==
    Settled(close_order_tracking(
                MarkRejected(handle_reject(Popped(st, pending, fill, "reject", flush), fill,
                                           SrcOf(pending.action)),
                             pending.order_id, now_ts),
                pending.order_id),
            pending)

\* The body without the test of the order's status.
PendingBody_status_unchecked(st, pending, now_ts, flush) ==
    IF pending.order_id \in st.eng.cancelled_orders
    THEN Settled(Popped(st, pending, NoSim, "discard", flush), pending)
    ELSE With(simulate(pending.action, st.replay.orderbook),
              LAMBDA sim :
                  IF sim.status = "Filled" /\ ~FeeSane(pending, sim)
                  THEN Fatal(Popped(st, pending, sim, "exit", flush))
                  ELSE IF sim.status = "Filled"
                  THEN PendingFill(st, pending,
                                   IF flush THEN sim ELSE [sim EXCEPT !.order_id = pending.order_id],
                                   now_ts, flush)
                  ELSE PendingReject(st, pending, sim, now_ts, flush))

\* The body of the loop for the popped entry; in the flush after the stream the fill
\* keeps the order_id simulate() gave it.
PendingBody(st, pending, now_ts, flush) ==
    IF pending.order_id \in st.eng.cancelled_orders
    THEN Settled(Popped(st, pending, NoSim, "discard", flush), pending)
    ELSE IF StatusOf(st.om, pending.order_id) \in TerminalStatuses
    THEN Settled(Popped(st, pending, NoSim, "discard", flush), pending)
    ELSE With(simulate(pending.action, st.replay.orderbook),
              LAMBDA sim :
                  IF sim.status = "Filled" /\ ~FeeSane(pending, sim)
                  THEN Fatal(Popped(st, pending, sim, "exit", flush))
                  ELSE IF sim.status = "Filled"
                  THEN PendingFill(st, pending,
                                   IF flush THEN sim ELSE [sim EXCEPT !.order_id = pending.order_id],
                                   now_ts, flush)
                  ELSE PendingReject(st, pending, sim, now_ts, flush))

\* Whether an iteration of the loop changed nothing but the heap, pending_order_ids
\* and the dispatch record.
Silent(before, after) ==
    /\ DOMAIN after.om.orders = DOMAIN before.om.orders
    /\ \A id \in DOMAIN before.om.orders : after.om.orders[id] = before.om.orders[id]
    /\ after.om.next_order_id = before.om.next_order_id
    /\ after.om.metrics = before.om.metrics
    /\ after.om.error = before.om.error
    /\ after.replay = before.replay
    /\ after.eng = [before.eng EXCEPT !.pending = after.eng.pending,
                                      !.pending_order_ids = after.eng.pending_order_ids,
                                      !.dispatched = after.eng.dispatched]

RECURSIVE PendingLoop(_, _, _)

\* One iteration of the loop, noted in the dispatch record, and the rest of the loop
PendingDispatch(st, pending, now_ts, flush) ==
    With(PendingBody(st, pending, now_ts, flush),
         LAMBDA s :
             PendingLoop([s EXCEPT !.eng.dispatched[Len(s.eng.dispatched)].silent = Silent(st, s)],
                         now_ts, flush))

\* The loop over pending_actions: while the top is due in a tick, to exhaustion in the
\* flush after the stream.
PendingLoop(st, now_ts, flush) ==
    IF st.eng.phase = "done" \/ st.eng.pending = <<>> THEN st
    ELSE IF ~flush /\ ~(pending_top(st.eng.pending).fill_ts <= now_ts) THEN st
    ELSE PendingDispatch(st, pending_top(st.eng.pending), now_ts, flush)

\* An accepted order goes to the maker sim or, after its latency, to the pending heap.
Route(st, action, crossing, latency, now_ts) ==
    IF action.is_maker
    THEN [st EXCEPT !.eng.maker = submit(@, action, st.replay.orderbook, now_ts),
                    !.eng.maker_open_orders = @ \cup {action.order_id}]
    ELSE [st EXCEPT !.eng.pending =
                        pending_push(@, [action |-> action, fill_ts |-> now_ts + latency,
                                         seq |-> st.eng.action_seq, crossing |-> crossing,
                                         order_id |-> action.order_id]),
                    !.eng.pending_order_ids = @ \cup {action.order_id},
                    !.eng.action_seq = @ + 1]

\* What follows a successful cancel() or replace() of oid
Untrack(st, oid) ==
    close_order_tracking([st EXCEPT !.eng.cancelled_orders = @ \cup {oid},
                                    !.eng.maker = maker_cancel(@, oid),
                                    !.eng.pending_order_ids = @ \ {oid}], oid)

\* The Cancel branch
IssueCancel(st, action, now_ts) ==
    With(cancel(st.om, action.target_order_id, now_ts),
         LAMBDA res :
             IF res[2] THEN Untrack([st EXCEPT !.om = res[1]], action.target_order_id)
             ELSE [st EXCEPT !.om = res[1]])

\* A Replace the rules or the risk engine turn down: reject row, mark_rejected(oid)
RejectReplace(st, side, reason, oid, now_ts) ==
    close_order_tracking(
        MarkRejected(handle_reject(st, [FillRejected(side, reason) EXCEPT !.order_id = oid], "STRAT"),
                     oid, now_ts),
        oid)

\* last_px handed to the risk engine
LastPx(action, book) ==
    With(IF action.side = "Buy" THEN best_ask(book) ELSE best_bid(book),
         LAMBDA ref_price : IF ref_price > 0 THEN ref_price ELSE action.limit_price)

\* replace_action as the Replace branch builds it from the action and the old order
ReplaceActionOf(action, old) ==
    [action EXCEPT !.kind = "Place", !.side = old.side, !.type = old.type,
                   !.size = IF action.size <= 0 THEN Max(0, old.qty - old.filled_qty) ELSE @,
                   !.limit_price = IF action.limit_price <= 0 THEN old.price ELSE @]

\* The Replace branch from order_manager.replace() on, rep being its result
Replaced(st, action, ra, rep, latency, now_ts) ==
    IF ~rep[2] THEN [st EXCEPT !.om = rep[1]]
    ELSE Route(Untrack([st EXCEPT !.om = rep[1]], action.target_order_id),
               [ra EXCEPT !.order_id = rep[4],
                          !.is_maker = (action.is_maker \/ action.target_order_id \in st.eng.maker_open_orders)
                                       /\ ~is_crossing_limit(ra, st.replay.orderbook)],
               is_crossing_limit(ra, st.replay.orderbook), latency, now_ts)

\* The Replace branch
IssueReplace(st, action, latency, now_ts) ==
    IF ~Known(st.om, action.target_order_id) THEN st
    ELSE With(rules_apply(ReplaceActionOf(action, st.om.orders[action.target_order_id]),
                          st.replay.orderbook),
              LAMBDA rules_res :
                  IF ~rules_res.ok
                  THEN RejectReplace(st, rules_res.normalized.side, rules_res.reason,
                                     action.target_order_id, now_ts)
                  ELSE IF ~risk_validate(st.eng.position, rules_res.normalized,
                                         LastPx(rules_res.normalized, st.replay.orderbook))
                  THEN RejectReplace(st, rules_res.normalized.side, "RiskLimit",
                                     action.target_order_id, now_ts)
                  ELSE Replaced(st, action, rules_res.normalized,
                                replace(st.om, action.target_order_id,
                                        rules_res.normalized.limit_price,
                                        rules_res.normalized.size, now_ts, now_ts + ExpireMs),
                                latency, now_ts))

\* The Place branch from order_manager.place() on, action being normalized and accepted
Placed(st, action, crossing, latency, now_ts) ==
    With(Route([st EXCEPT !.om = place(st.om, action, now_ts, now_ts + ExpireMs)],
               [action EXCEPT !.order_id = st.om.next_order_id], crossing, latency, now_ts),
         LAMBDA s : IF ~action.is_maker /\ action.demo
                    THEN [s EXCEPT !.eng.demo.demo_sent = @ + 1]
                    ELSE s)

\* The Place branch
IssuePlace(st, action, latency, now_ts) ==
    With(rules_apply(action, st.replay.orderbook),
         LAMBDA rules_res :
             IF ~rules_res.ok
             THEN handle_reject(st, FillRejected(action.side, rules_res.reason), SrcOf(action))
             ELSE IF ~risk_validate(st.eng.position, rules_res.normalized,
                                    LastPx(rules_res.normalized, st.replay.orderbook))
             THEN handle_reject(st, FillRejected(action.side, "RiskLimit"), SrcOf(action))
             ELSE IF is_crossing_limit(rules_res.normalized, st.replay.orderbook)
             THEN Placed(st, [rules_res.normalized EXCEPT !.is_maker = FALSE], TRUE,
                         latency, now_ts)
             ELSE Placed(st, rules_res.normalized, FALSE, latency, now_ts))

\* What the loop does with the action the strategy decided on.
Issue(st, action, latency, now_ts) ==
    IF st.eng.phase = "done" THEN st
    ELSE With([st EXCEPT !.eng.steps = Append(@, "issue"),
                         !.eng.after_error = IF st.om.error THEN @ + 1 ELSE @],
              LAMBDA s :
                  IF action.kind = "Cancel" THEN IssueCancel(s, action, now_ts)
                  ELSE IF action.kind = "Replace" THEN IssueReplace(s, action, latency, now_ts)
                  ELSE IssuePlace(s, action, latency, now_ts))

\* Whether a demo issuer last sent at last_ts is due again at now_ts
DemoDue(last_ts, now_ts, interval_ms) == last_ts = 0 \/ now_ts - last_ts >= interval_ms

\* The maker demo's action: a resting limit at the touch, buys and sells in turn; its
\* size is the notional (price x lots) over the price.
MakerDemoAction(st) ==
    With(IF st.eng.demo.maker_demo_sent % 2 = 0 THEN best_bid(st.replay.orderbook)
         ELSE best_ask(st.replay.orderbook),
         LAMBDA ref_px :
             [Action0 EXCEPT !.side = IF st.eng.demo.maker_demo_sent % 2 = 0 THEN "Buy" ELSE "Sell",
                             !.size = (st.eng.flags.maker_notional \div ref_px) * QtyStep,
                             !.notional = st.eng.flags.maker_notional,
                             !.is_maker = TRUE, !.limit_price = ref_px, !.type = "Limit",
                             !.demo = TRUE])

\* Maker demo generation: [skip, st, action, issued_demo]
MakerDemo(st, now_ts) ==
    IF /\ st.eng.flags.maker_demo
       /\ st.eng.demo.maker_demo_sent < MakerMaxActions
       /\ DemoDue(st.eng.demo.last_maker_demo_ts, now_ts, MakerIntervalMs)
       /\ best_bid(st.replay.orderbook) > 0
       /\ best_ask(st.replay.orderbook) > 0
       /\ st.eng.flags.maker_notional > 0
    THEN [skip |-> FALSE, action |-> MakerDemoAction(st), issued_demo |-> TRUE,
          st |-> [st EXCEPT !.eng.demo.last_maker_demo_ts = now_ts,
                            !.eng.demo.maker_demo_sent = @ + 1]]
    ELSE [skip |-> FALSE, action |-> Action0, issued_demo |-> FALSE, st |-> st]

\* ref_px of the taker demo
DemoRefPx(book) == IF best_ask(book) > 0 THEN best_ask(book) ELSE best_bid(book)

\* The taker demo's action: a market buy of the notional
TakerDemoAction(st) ==
    [Action0 EXCEPT !.side = "Buy",
                    !.size = (st.eng.flags.demo_notional \div DemoRefPx(st.replay.orderbook)) * QtyStep,
                    !.notional = st.eng.flags.demo_notional, !.is_maker = FALSE, !.demo = TRUE]

\* Taker demo generation after the maker demo's d
TakerDemo(d, now_ts) ==
    IF ~(/\ d.st.eng.flags.demo_notional > 0
         /\ d.st.eng.demo.demo_sent < DemoMaxActions
         /\ DemoDue(d.st.eng.demo.last_demo_ts, now_ts, DemoIntervalMs))
    THEN d
    ELSE IF DemoRefPx(d.st.replay.orderbook) <= 0
    THEN [d EXCEPT !.skip = ~(d.st.eng.flags.demo_only /\ d.issued_demo)]
    ELSE IF d.issued_demo THEN d
    ELSE [d EXCEPT !.action = TakerDemoAction(d.st), !.issued_demo = TRUE,
                   !.st.eng.demo.last_demo_ts = now_ts]

\* What the iteration issues: a demo action, the strategy's action, or nothing (skip)
Decided(d, action) ==
    IF d.skip THEN d
    ELSE IF d.st.eng.flags.demo_notional > 0 /\ ~d.issued_demo
            /\ d.st.eng.flags.demo_only /\ ~d.st.eng.flags.maker_demo
    THEN [d EXCEPT !.skip = TRUE]
    ELSE IF d.st.eng.flags.demo_only /\ ~d.issued_demo THEN [d EXCEPT !.skip = TRUE]
    ELSE IF ~d.issued_demo THEN [d EXCEPT !.action = action]
    ELSE d

\* The head of if (!no_actions): the demo issuers and decision_engine.decide()
Decide(st, action, now_ts) ==
    IF /\ st.eng.flags.demo_notional > 0
       /\ st.eng.demo.demo_sent >= DemoMaxActions
       /\ st.eng.flags.demo_only /\ ~st.eng.flags.maker_demo
    THEN [skip |-> TRUE, action |-> Action0, issued_demo |-> FALSE, st |-> st]
    ELSE Decided(TakerDemo(MakerDemo(st, now_ts), now_ts), action)

\* The issuing of an iteration whose strategy decides on action
Issuance(st, action, latency, now_ts) ==
    IF st.eng.phase = "done" THEN st
    ELSE With(Decide(st, action, now_ts),
              LAMBDA d : IF d.skip THEN d.st ELSE Issue(d.st, d.action, latency, now_ts))

\* The tail with the no_actions guards of the dispatch and of the issuing left out.
TickTail_unguarded(s, action, latency, now_ts) ==
    Issuance(PendingLoop(s, now_ts, FALSE), action, latency, now_ts)

\* The iteration after the expiry sweep and the maker stage
TickTail(s, action, latency, now_ts) ==
    IF s.eng.no_actions THEN s
    ELSE Issuance(PendingLoop(s, now_ts, FALSE), action, latency, now_ts)

\* The end of an iteration that ran through
Iterated(st) == IF st.eng.phase = "done" THEN st ELSE [st EXCEPT !.eng.ticks = @ + 1]

\* The samples resolved on a book regardless of its having a mid.
AdvDue_any_book(st, p) == st.replay.orderbook.ts_ms >= p.target_ts_ms

\* A sample is resolved on a book that has both tops and has reached its target
AdvDue(st, p) ==
    /\ best_bid(st.replay) > 0 /\ best_ask(st.replay) > 0
    /\ st.replay.orderbook.ts_ms >= p.target_ts_ms

\* The head of the loop body: the adverse-selection samples that are due are
\* resolved on the book just fed and leave pending_maker_adv
RECURSIVE AdvStage(_, _)
AdvStage(st, k) ==
    IF k > Len(st.eng.pending_maker_adv) THEN st
    ELSE With(st.eng.pending_maker_adv[k],
              LAMBDA p :
                  IF AdvDue(st, p)
                  THEN AdvStage([st EXCEPT !.eng.pending_maker_adv =
                                               SubSeq(@, 1, k - 1) \o SubSeq(@, k + 1, Len(@)),
                                           !.eng.adv_resolved =
                                               Append(@, [fill_row_index |-> p.fill_row_index,
                                                          target_ts_ms |-> p.target_ts_ms,
                                                          missed |-> p.missed,
                                                          missed_mid |-> p.missed_mid,
                                                          had_mid |-> best_bid(st.replay) > 0
                                                                      /\ best_ask(st.replay) > 0,
                                                          ts_ms |-> st.replay.orderbook.ts_ms])],
                                k)
                  ELSE AdvStage([st EXCEPT !.eng.pending_maker_adv[k].missed =
                                               IF st.replay.orderbook.ts_ms >= p.target_ts_ms
                                               THEN @ + 1 ELSE @,
                                           !.eng.pending_maker_adv[k].missed_mid =
                                               IF /\ st.replay.orderbook.ts_ms >= p.target_ts_ms
                                                  /\ best_bid(st.replay) > 0 /\ best_ask(st.replay) > 0
                                               THEN @ + 1 ELSE @],
                                k + 1))

\* The body after the samples, with the dispatch ahead of the resting-maker fills
TickPolled_pending_first(st, action, latency, order) ==
    With(poll(st.eng.bus),
         LAMBDA polled :
             IF polled[2] = "none" THEN Iterated([st EXCEPT !.eng.bus = polled[1], !.eng.steps = <<>>])
             ELSE Iterated(Issuance(MakerStage(PendingLoop(ExpireStage([st EXCEPT !.eng.bus = polled[1],
                                                                                  !.eng.steps = <<>>],
                                                                      order),
                                                           Now(st), FALSE)),
                                    action, latency, Now(st))))

\* The body from bus.poll() on
TickPolled(st, action, latency, order) ==
    With(poll(st.eng.bus),
         LAMBDA polled :
             IF polled[2] = "none" THEN Iterated([st EXCEPT !.eng.bus = polled[1], !.eng.steps = <<>>])
             ELSE Iterated(TickTail(MakerStage(ExpireStage([st EXCEPT !.eng.bus = polled[1],
                                                                      !.eng.steps = <<>>],
                                                          order)),
                                    action, latency, Now(st))))

\* The body with the pending dispatch moved ahead of the resting-maker fills.
TickBody_pending_first(st, action, latency, order) ==
    TickPolled_pending_first(AdvStage(st, 1), action, latency, order)

\* The body of while (replay.feed_next(bus)), the strategy deciding on action
TickBody(st, action, latency, order) ==
    TickPolled(AdvStage(st, 1), action, latency, order)

\* final_mid of the summary: the half sum of the tops, or avg_price on an empty book
FinalMid(st) ==
    IF best_bid(st.replay) + best_ask(st.replay) > 0
    THEN Rat(best_bid(st.replay) + best_ask(st.replay), 2)
    ELSE st.eng.position.avg_price

\* The summary from realized, unrealized and fees: net_total, and identity_ok over
\* identity_lhs computed a second time; the tolerance 1e-6 is a tenth of 1e-5
Summed(realized, unrealized, fees) ==
    [written |-> TRUE, realized |-> realized, unrealized |-> unrealized, fees |-> fees,
     net_total |-> RatSub(RatAdd(realized, unrealized), RatInt(fees)),
     identity_ok |-> RatLeq(RatAbs(RatSub(RatSub(RatAdd(realized, unrealized), RatInt(fees)),
                                          RatSub(RatAdd(realized, unrealized), RatInt(fees)))),
                            Rat(1, 10))]

\* The summary with the position marked at its own average price.
Summary_unmarked(st) ==
    Summed(st.eng.position.realized_pnl, RatInt(0), st.eng.fees)

\* The PnL summary of main() after the loop
Summary(st) ==
    Summed(st.eng.position.realized_pnl,
           RatScale(RatSub(FinalMid(st), st.eng.position.avg_price), Lots(st.eng.position.qty)),
           st.eng.fees)

\* The outputs are written and a failed identity check is fatal
Reported(st) ==
    [st EXCEPT !.eng.summary = Summary(st),
               !.eng.phase = "done",
               !.eng.exit_code = IF Summary(st).identity_ok THEN 0 ELSE 1]

\* After the loop: the flush of the pending heap, the summary and the exit code.
AfterLoop(st) ==
    With(IF st.eng.no_actions THEN st ELSE PendingLoop([st EXCEPT !.eng.steps = <<>>], Now(st), TRUE),
         LAMBDA s : IF s.eng.phase = "done" THEN s
                    ELSE IF s.eng.pending_maker_adv # <<>> /\ s.eng.flags.adv_fatal_missing THEN Fatal(s)
                    ELSE IF s.om.error THEN Fatal(s)
                    ELSE Reported(s))

State == [om |-> om, replay |-> replay, eng |-> eng]

Becomes(st) ==
    /\ om' = st.om
    /\ replay' = st.replay
    /\ eng' = st.eng

\* One iteration of the loop.
Tick(action, latency) ==
    /\ eng.phase = "run"
    /\ feed_next(State)[2]
    /\ \E order \in IterationOrders(om) :
           Becomes(TickBody(feed_next(State)[1], action, latency, order))
    /\ UNCHANGED <<om_ret, call>>

\* feed_next() returns false: the loop is left and main() runs to its return.
RunEnd ==
    /\ eng.phase = "run"
    /\ ~feed_next(State)[2]
    /\ Becomes(AfterLoop(feed_next(State)[1]))
    /\ UNCHANGED <<om_ret, call>>

----------------------------------------------------------------------------
(* A run of main() over a recorded stream, the strategy free to decide on any action *)

T0 == 1000
StepMs == 10
MaxEngOrders == 2

Delta(seq, snapshot, ts_ms, side, price, qty) ==
    [seq |-> seq, prev_seq |-> seq - 1, snapshot |-> snapshot, ts_ms |-> ts_ms,
     side |-> side, price |-> price, qty |-> qty]

Lo == MinOf(Prices)
Hi == MaxOf(Prices)
Mid == MinOf(Prices \ {Lo})

\* A snapshot that builds the book over deltas sharing one timestamp, an ask update
\* a step later, and a bid decrease once the first orders' time to live has run out.
EngineDeltas ==
    << Delta(1, TRUE, T0, "Buy", Lo, 2 * One),
       Delta(2, FALSE, T0, "Sell", Mid, 2 * One),
       Delta(3, FALSE, T0, "Sell", Hi, One),
       Delta(4, FALSE, T0 + StepMs, "Sell", Mid, One),
       Delta(5, FALSE, T0 + ExpireMs, "Buy", Lo, One) >>

EngineTrades ==
    << [ts_ms |-> T0 + StepMs, side |-> "Sell", price |-> Lo, size |-> 2 * One] >>

Big == MaxPosition + One

HoldAction == Action0
TakerAction == [Action0 EXCEPT !.side = "Buy", !.size = One]
MakerAction == [Action0 EXCEPT !.side = "Buy", !.size = One, !.type = "Limit",
                               !.is_maker = TRUE, !.limit_price = Lo]
CancelAction(t) == [Action0 EXCEPT !.kind = "Cancel", !.target_order_id = t]
ReplaceAction(t, sz) == [Action0 EXCEPT !.kind = "Replace", !.target_order_id = t, !.size = sz]

Targets == 1..MaxEngOrders

InitEngine ==
    /\ om = OrderManager0
    /\ om_ret = OmRet0
    /\ call = Call0
    /\ replay = [Replay0 EXCEPT !.deltas = EngineDeltas, !.trades = EngineTrades]
    /\ eng = Engine0

TickHold == Tick(HoldAction, LatencyBase)

TickPlaceTaker ==
    /\ om.next_order_id <= MaxEngOrders
    /\ \E latency \in Latencies : Tick(TakerAction, latency)

TickPlaceMaker ==
    /\ om.next_order_id <= MaxEngOrders
    /\ Tick(MakerAction, LatencyBase)

TickCancel == \E t \in Targets : Tick(CancelAction(t), LatencyBase)

TickReplace ==
    /\ om.next_order_id <= MaxEngOrders
    /\ \E t \in Targets, sz \in {0, Big}, latency \in Latencies : Tick(ReplaceAction(t, sz), latency)

NextEngine == TickHold \/ TickPlaceTaker \/ TickPlaceMaker \/ TickCancel \/ TickReplace \/ RunEnd

SpecEngine == InitEngine /\ [][NextEngine]_vars

\* C1: no fill is emitted against an order that is already Cancelled, Expired,
\* Replaced, Filled or Rejected -- every Filled row of the fills ledger was written
\* while its order was not in a terminal status.
TerminalOrderNeverFills ==
    \A i \in 1..Len(eng.fill_rows) :
        eng.fill_rows[i].status = "Filled" => eng.fill_rows[i].at \notin TerminalStatuses

\* C2: a taker action decided at t with latency L is never matched against a book
\* with ts_ms < t + L, in a tick or in the flush at the end of the stream.
LatencyCausality ==
    \A i \in 1..Len(eng.dispatched) :
        eng.dispatched[i].outcome # "discard" =>
            eng.dispatched[i].book_ts >= eng.dispatched[i].fill_ts

\* C9: at the end of every tick no RestingOrder of the maker simulator belongs to an
\* Order that is in a terminal status.
RestingNeverOutlives ==
    eng.phase = "run" =>
        \A i \in 1..Len(eng.maker.orders) :
            StatusOf(om, eng.maker.orders[i].order_id) \notin TerminalStatuses

\* The stage of the loop body a step of eng.steps belongs to.
StageOf(step) ==
    CASE step = "maker_fill" -> 1
      [] step = "taker_fill" -> 2
      [] step = "issue" -> 3

\* C14: within every tick the resting-maker fills are recorded and applied before any
\* pending-taker fill of that tick, and the pending-taker fills before the strategy's
\* action is issued.
TickStageOrder ==
    \A i, j \in DOMAIN eng.steps :
        i < j => StageOf(eng.steps[i]) <= StageOf(eng.steps[j])

\* A tick that has a resting-maker fill, a pending-taker fill and an issued action.
TickStageOrderWitness ==
    /\ eng.phase = "run"
    /\ eng.steps = <<"maker_fill", "taker_fill", "issue">>

\* What a run leaves behind: the ledger rows, the metrics, the position, the orders'
\* statuses and the exit code.
Outcome(st) ==
    [fill_rows |-> st.eng.fill_rows, metrics |-> st.om.metrics, position |-> st.eng.position,
     statuses |-> [id \in DOMAIN st.om.orders |-> st.om.orders[id].status],
     resting |-> st.eng.maker.orders, exit_code |-> st.eng.exit_code]

\* What the strategy can hand to an iteration.
EngineActions ==
    {HoldAction, TakerAction, MakerAction}
        \cup {CancelAction(t) : t \in Targets}
        \cup {ReplaceAction(t, sz) : t \in Targets, sz \in {0, Big}}

TerminalEntryDiscarded ==
    \A i \in 1..Len(eng.dispatched) :
        eng.dispatched[i].status \in {"Cancelled", "Expired", "Replaced", "Filled", "Rejected"} =>
            /\ eng.dispatched[i].outcome = "discard"
            /\ eng.dispatched[i].sim.status = "None"
            /\ eng.dispatched[i].silent

\* An entry was popped in a tick after its order had been cancelled or replaced.
TerminalEntryDiscardedWitness ==
    \E i \in 1..Len(eng.dispatched) :
        /\ eng.dispatched[i].status \in {"Cancelled", "Replaced"}
        /\ ~eng.dispatched[i].flush
        /\ eng.dispatched[i].silent

\* C24: every Filled result of a popped pending action, in a tick or in the flush after
\* the stream, is applied to the order manager under the entry's own order_id: the
\* order is known and has filled_qty above zero, and no error is raised.
FillAppliedUnderOwnId ==
    \A i \in DOMAIN eng.dispatched :
        eng.dispatched[i].outcome = "fill" =>
            /\ Known(om, eng.dispatched[i].order_id)
            /\ om.orders[eng.dispatched[i].order_id].filled_qty > 0
            /\ ~om.error

\* The filled_qty of the Filled rows of the ledger written against order id, summed
\* from row k on.
RECURSIVE RowsFilled(_, _, _)
RowsFilled(rows, id, k) ==
    IF k \notin DOMAIN rows THEN 0
    ELSE (IF rows[k].status = "Filled" /\ rows[k].order_id = id THEN rows[k].filled_qty ELSE 0)
             + RowsFilled(rows, id, k + 1)

\* C30: for every order, the filled_qty of all Filled ledger rows written against its
\* id sums to no more than the order's qty, up to the tolerance of apply_fill.
LedgerNeverOverfills ==
    \A id \in DOMAIN om.orders :
        RowsFilled(eng.fill_rows, id, 1) <= om.orders[id].qty + OverfillTol

\* A resting order filled to its qty by a trade-driven and a later depth-driven fill.
LedgerNeverOverfillsWitness ==
    \E id \in DOMAIN om.orders :
        /\ om.orders[id].status = "Filled"
        /\ ~om.error
        /\ RowsFilled(eng.fill_rows, id, 1) = om.orders[id].qty
        /\ Cardinality({k \in DOMAIN eng.fill_rows :
                            /\ eng.fill_rows[k].status = "Filled"
                            /\ eng.fill_rows[k].order_id = id
                            /\ eng.fill_rows[k].liquidity = "Maker"}) = 2

\* C29: whenever apply_fill refuses a fill, the position, realized PnL, fees and the
\* fills ledger are what they were before the fill was handled.
RefusedFillNotBooked ==
    \A i \in DOMAIN eng.refused : eng.refused[i].after = eng.refused[i].before

----------------------------------------------------------------------------
(* TickReplay fed a stream whose deltas are free: every flag, sequence number, *)
(* side, price and quantity a recorded line can carry                          *)

MaxDeltas == 3
MaxSeq == 3

\* The timestamps a line can carry: none, one value, a later one.
Stamps == {0, T0, T0 + StepMs}

InitReplay ==
    /\ om = OrderManager0
    /\ om_ret = OmRet0
    /\ call = Call0
    /\ replay = Replay0
    /\ eng = Engine0

\* apply_next_delta() on the next line of the stream, while the last call returned true
ReplayDelta ==
    /\ replay.ret
    /\ replay.delta_cursor < MaxDeltas
    /\ \E snapshot \in BOOLEAN, seq \in 1..MaxSeq, prev_seq \in 0..(MaxSeq - 1),
          ts_ms \in Stamps, side \in Sides, price \in {Lo, Mid}, qty \in {-One, 0, One} :
          replay' = apply_next_delta(replay,
                        [seq |-> seq, prev_seq |-> prev_seq, snapshot |-> snapshot,
                         ts_ms |-> ts_ms, side |-> side, price |-> price, qty |-> qty])
    /\ UNCHANGED <<om, om_ret, eng, call>>

NextReplay == ReplayDelta

SpecReplay == InitReplay /\ [][NextReplay]_vars

\* C7: every snapshot exposed after an accepted delta, while no snapshot is in
\* progress, has best_bid > 0, best_ask > 0, best_bid < best_ask and positive top
\* sizes (mid is then finite); a delta breaking this is refused.
BookValidity ==
    (replay.delta_cursor > 0 /\ replay.ret /\ ~replay.snapshot_in_progress) =>
        /\ best_bid(replay.orderbook) > 0
        /\ best_ask(replay.orderbook) > 0
        /\ best_bid(replay.orderbook) < best_ask(replay.orderbook)
        /\ bid_size(replay.orderbook) > 0
        /\ ask_size(replay.orderbook) > 0

\* C8: every accepted non-snapshot delta that follows an earlier delta has prev_seq
\* equal to the previous delta's seq and seq strictly greater than it (a delta with
\* prev_seq = 0 counts as a snapshot).
SequenceMonotonicity ==
    (replay.delta_cursor > 1 /\ replay.ret /\ ~replay.d.snapshot /\ replay.d.prev_seq # 0) =>
        /\ replay.d.prev_seq = replay.seq_before
        /\ replay.d.seq > replay.seq_before

\* The book sides hold nothing but the level of the last delta.
OnlyOwnLevel ==
    /\ Populated(replay.bids) \subseteq (IF replay.d.side = "Buy" THEN {replay.d.price} ELSE {})
    /\ Populated(replay.asks) \subseteq (IF replay.d.side = "Sell" THEN {replay.d.price} ELSE {})

\* C26: a delta with is_snapshot set, or a non-snapshot delta with prev_seq = 0, is
\* not refused for a sequence gap, leaves in the book nothing but its own level, and
\* leaves snapshot_in_progress set unless both sides are populated.
SnapshotStartsEmpty ==
    (replay.delta_cursor > 0 /\ (replay.d.snapshot \/ replay.d.prev_seq = 0)) =>
        /\ replay.warn # "seq gap"
        /\ replay.ret =>
               /\ OnlyOwnLevel
               /\ replay.snapshot_in_progress

\* C27: after every accepted delta the ts_ms of the exposed snapshot is above the one
\* before it, and is the larger of the delta's ts_ms and the previous ts_ms plus one.
TimestampsStrictlyIncrease ==
    (replay.delta_cursor > 0 /\ replay.ret) =>
        /\ replay.orderbook.ts_ms > replay.ts_before
        /\ replay.orderbook.ts_ms = Max(replay.ts_before + 1, replay.d.ts_ms)

----------------------------------------------------------------------------
(* A run in which the strategy sends market orders over several deltas that share *)
(* one timestamp, so that several pending actions are due at the same fill_ts     *)

MaxHeapOrders == 4

\* A snapshot built over deltas of one timestamp, then two later updates.
HeapDeltas ==
    << Delta(1, TRUE, T0, "Buy", Lo, 2 * One),
       Delta(2, FALSE, T0, "Sell", Mid, 2 * One),
       Delta(3, FALSE, T0, "Sell", Hi, One),
       Delta(4, FALSE, T0, "Sell", Hi, 2 * One),
       Delta(5, FALSE, T0, "Buy", Lo, One),
       Delta(6, FALSE, T0 + StepMs, "Sell", Mid, One),
       Delta(7, FALSE, T0 + 2 * StepMs, "Buy", Lo, 2 * One) >>

InitHeap ==
    /\ om = OrderManager0
    /\ om_ret = OmRet0
    /\ call = Call0
    /\ replay = [Replay0 EXCEPT !.deltas = HeapDeltas]
    /\ eng = Engine0

HeapHold == Tick(HoldAction, LatencyBase)

HeapPlaceTaker ==
    /\ om.next_order_id <= MaxHeapOrders
    /\ \E latency \in Latencies : Tick(TakerAction, latency)

HeapEnd == RunEnd

NextHeap == HeapHold \/ HeapPlaceTaker \/ HeapEnd

SpecHeap == InitHeap /\ [][NextHeap]_vars

\* C6: pending actions are dispatched in non-decreasing fill_ts order, and two with
\* equal fill_ts in the order they were enqueued (seq is the enqueue counter).
DispatchOrder ==
    \A i, j \in 1..Len(eng.dispatched) :
        i < j =>
            /\ eng.dispatched[i].fill_ts <= eng.dispatched[j].fill_ts
            /\ eng.dispatched[i].fill_ts = eng.dispatched[j].fill_ts =>
                   eng.dispatched[i].seq < eng.dispatched[j].seq

\* C17: once an illegal fill has set the order manager's error flag the run is over
\* with exit code 1, and no fill, pending entry or strategy action has been processed
\* with the flag set.
ErrorIsFatal ==
    om.error => /\ eng.phase = "done"
                /\ eng.exit_code = 1
                /\ eng.after_error = 0

\* The flag was set while further entries were waiting in the pending heap.
ErrorIsFatalWitness ==
    /\ om.error
    /\ eng.pending # <<>>
    /\ eng.exit_code = 1

\* The entries of the dispatch record with that outcome, and the rows a dispatch writes:
\* Filled taker rows, and Rejected rows with a reason of simulate().
Outcomes(outcome) == {i \in DOMAIN eng.dispatched : eng.dispatched[i].outcome = outcome}
TakerFillRows ==
    {k \in DOMAIN eng.fill_rows : /\ eng.fill_rows[k].status = "Filled"
                                  /\ eng.fill_rows[k].liquidity = "Taker"}
SimRejectRows ==
    {k \in DOMAIN eng.fill_rows : /\ eng.fill_rows[k].status = "Rejected"
                                  /\ eng.fill_rows[k].reason \in {"NoAsk", "NoBid", "NoLiquidity"}}

\* No order id is popped twice, an entry popped in a tick is due, and every pop wrote
\* its one row or none.
PoppedAtMostOnce ==
    /\ \A i, j \in DOMAIN eng.dispatched :
           eng.dispatched[i].order_id = eng.dispatched[j].order_id => i = j
    /\ \A i \in DOMAIN eng.dispatched :
           /\ eng.dispatched[i].outcome \in {"fill", "reject", "discard"}
           /\ ~eng.dispatched[i].flush => eng.dispatched[i].fill_ts <= eng.dispatched[i].book_ts
    /\ Cardinality(TakerFillRows) = Cardinality(Outcomes("fill"))
    /\ Cardinality(SimRejectRows) = Cardinality(Outcomes("reject"))

\* No due entry is left on the heap after a tick, and none at all after the stream.
PoppedWhenDue ==
    /\ \A k \in DOMAIN eng.pending : eng.pending[k].fill_ts > replay.orderbook.ts_ms
    /\ eng.phase = "done" => eng.pending = <<>>

\* C31: every taker order pushed on the pending heap is popped exactly once, in the
\* first tick whose book ts_ms has reached its fill_ts or in the flush after the stream,
\* and gives exactly one outcome: one fill row, one reject row or a silent discard.
PoppedExactlyOnce == PoppedAtMostOnce /\ PoppedWhenDue

\* The book of the step: the one the delta of the tick has left, or, when the stream
\* is over, the last one.
SnapshotOfStep == feed_next(State)[1].replay.orderbook

\* The entries the step has added to the dispatch record.
NewlyDispatched == (Len(eng.dispatched) + 1)..Len(eng'.dispatched)

\* What simulate() returns for the market order of a dispatch entry alone on book.
Alone(e, book) == simulate([TakerAction EXCEPT !.side = e.side, !.size = e.size], book)

\* C38: matching never consumes displayed liquidity: a step leaves the reconstructed
\* book as the delta made it, and every taker it dispatches is matched against that
\* full snapshot and gets the fill it would have got had it been the only one.
MatchingLeavesBook ==
    [][/\ replay'.orderbook = SnapshotOfStep
       /\ \A i \in NewlyDispatched :
              /\ eng'.dispatched[i].book = SnapshotOfStep
              /\ eng'.dispatched[i].outcome \in {"fill", "reject", "exit"} =>
                     [eng'.dispatched[i].sim EXCEPT !.order_id = 0]
                         = Alone(eng'.dispatched[i], SnapshotOfStep)]_vars

\* Three takers were dispatched in one tick against a book whose best ask held one
\* unit, and each was filled that unit at the best ask.
MatchingLeavesBookWitness ==
    \E i \in 1..Len(eng.dispatched) :
        /\ i + 2 <= Len(eng.dispatched)
        /\ \A k \in i..(i + 2) :
               /\ eng.dispatched[k].outcome = "fill"
               /\ ~eng.dispatched[k].flush
               /\ eng.dispatched[k].book = eng.dispatched[i].book
               /\ eng.dispatched[k].sim.filled_qty = One
               /\ eng.dispatched[k].sim.vwap_price = best_ask(eng.dispatched[i].book)
        /\ ask_size(eng.dispatched[i].book) = One

----------------------------------------------------------------------------
(* A long run: a valid stream with more deltas than the event bus has slots, the *)
(* strategy holding or cancelling an order that does not exist                   *)

LongStream == 70

LongDeltas ==
    [i \in 1..LongStream |->
        IF i = 1 THEN Delta(1, TRUE, T0, "Buy", Lo, One)
        ELSE Delta(i, FALSE, T0 + i, "Sell", Mid, One)]

InitLong ==
    /\ om = OrderManager0
    /\ om_ret = OmRet0
    /\ call = Call0
    /\ replay = [Replay0 EXCEPT !.deltas = LongDeltas]
    /\ eng = Engine0

LongHold == Tick(HoldAction, LatencyBase)

LongCancel ==
    /\ om.metrics.orders_cancel_noop < MaxNoop
    /\ Tick(CancelAction(1), LatencyBase)

LongEnd == RunEnd

NextLong == LongHold \/ LongCancel \/ LongEnd

SpecLong == InitLong /\ [][NextLong]_vars

\* C5: the loop stops only when the stream is exhausted or on a fatal violation --
\* a run that returns 0 has applied every delta and processed its tick.
LoopRunsToExhaustion ==
    (eng.phase = "done" /\ eng.exit_code = 0) =>
        /\ replay.delta_cursor = Len(replay.deltas)
        /\ eng.ticks = Len(replay.deltas)

----------------------------------------------------------------------------
(* MatchingEngine::simulate called on its own, on every book and action of a *)
(* small grid                                                                *)

LevelQtys == {0, Half, One}
MatchBooks ==
    {[ts_ms |-> T0, bids |-> b, asks |-> a] : b \in [Prices -> LevelQtys], a \in [Prices -> LevelQtys]}
MatchSizes == {0, Half, One + Half, 4 * One}

InitMatch ==
    /\ om = OrderManager0
    /\ om_ret = OmRet0
    /\ call = Call0
    /\ replay = Replay0
    /\ eng = Engine0

MatchSimulate ==
    /\ call.op = "none"
    /\ \E book \in MatchBooks, side \in Sides \cup {"Hold"}, size \in MatchSizes,
          reject_on_insufficient_depth \in BOOLEAN :
          call' = [op |-> "simulate", book |-> book,
                   action |-> [Action0 EXCEPT !.side = side, !.size = size],
                   reject_on_insufficient_depth |-> reject_on_insufficient_depth,
                   fill |-> Simulated([Action0 EXCEPT !.side = side, !.size = size], book,
                                      reject_on_insufficient_depth)]
    /\ UNCHANGED <<om, om_ret, replay, eng>>

NextMatch == MatchSimulate

SpecMatch == InitMatch /\ [][NextMatch]_vars

RECURSIVE SumOver(_, _)
SumOver(f, S) == IF S = {} THEN 0 ELSE f[MinOf(S)] + SumOver(f, S \ {MinOf(S)})

\* The quantity the walk takes at each price: what is left of size after the levels
\* ahead of it in book order, capped by the level.
TradedAt(side, size, book) ==
    LET lv == IF side = "Buy" THEN book.asks ELSE book.bids
        Ahead(p) == {q \in Prices : IF side = "Buy" THEN q < p ELSE q > p}
    IN [p \in Prices |-> Min(lv[p], Max(0, size - SumOver(lv, Ahead(p))))]

\* C12: for every Filled result of simulate, filled_qty is the sum of the per-level
\* traded quantities in book order, vwap their quantity-weighted mean price,
\* 0 <= filled_qty <= size, unfilled_qty = size - filled_qty and levels_crossed the
\* number of levels with a positive traded quantity.
MatchingConservation ==
    (call.op = "simulate" /\ call.fill.status = "Filled") =>
        LET traded == TradedAt(call.action.side, call.action.size, call.book)
            lots == [p \in Prices |-> (traded[p] \div QtyStep) * p]
        IN /\ call.fill.filled_qty = SumOver(traded, Prices)
           /\ call.fill.vwap_price =
                  SumOver(lots, Prices) \div (call.fill.filled_qty \div QtyStep)
           /\ 0 <= call.fill.filled_qty
           /\ call.fill.filled_qty <= call.action.size
           /\ call.fill.unfilled_qty = call.action.size - call.fill.filled_qty
           /\ call.fill.levels_crossed = Cardinality({p \in Prices : traded[p] > 0})

\* A Filled result that crossed two levels and left part of the size unfilled.
MatchingConservationWitness ==
    /\ call.op = "simulate"
    /\ call.fill.status = "Filled"
    /\ call.fill.levels_crossed >= 2
    /\ call.fill.unfilled_qty > 0

\* The displayed quantity a taker of that side can walk, and whether the action of the
\* last call met less of it than its size
Displayed(side, book) == SumOver(IF side = "Buy" THEN book.asks ELSE book.bids, Prices)
Shortfall ==
    /\ call.action.side \in Sides
    /\ 0 < Displayed(call.action.side, call.book)
    /\ Displayed(call.action.side, call.book) < call.action.size

FilledWhole ==
    /\ call.fill.status = "Filled"
    /\ call.fill.filled_qty = call.action.size
    /\ ~call.fill.partial
    /\ call.fill.unfilled_qty = 0

\* C35 as stated: with reject_on_insufficient_depth set, simulate fills the whole size
\* or returns Rejected with reason NoLiquidity and filled_qty 0; with it unset a depth
\* shortfall gives a Filled result with partial set.
FillOrKill ==
    call.op = "simulate" =>
        /\ call.reject_on_insufficient_depth =>
               \/ FilledWhole
               \/ /\ call.fill.status = "Rejected"
                  /\ call.fill.reason = "NoLiquidity"
                  /\ call.fill.filled_qty = 0
        /\ (~call.reject_on_insufficient_depth /\ Shortfall) =>
               /\ call.fill.status = "Filled"
               /\ call.fill.partial

\* C35: with reject_on_insufficient_depth set, simulate fills the whole size or returns
\* Rejected with filled_qty 0, never a partial fill, and the reason is NoLiquidity
\* whenever the action met displayed quantity short of its size; with it unset a depth
\* shortfall gives a Filled result with partial set.
FillOrKillOnShortfall ==
    call.op = "simulate" =>
        /\ call.reject_on_insufficient_depth =>
               \/ FilledWhole
               \/ /\ call.fill.status = "Rejected"
                  /\ call.fill.filled_qty = 0
                  /\ Shortfall => call.fill.reason = "NoLiquidity"
        /\ (~call.reject_on_insufficient_depth /\ Shortfall) =>
               /\ call.fill.status = "Filled"
               /\ call.fill.partial

\* An engine with the flag set met two levels holding less than the size.
FillOrKillOnShortfallWitness ==
    /\ call.op = "simulate"
    /\ call.reject_on_insufficient_depth
    /\ Shortfall
    /\ Cardinality(Populated(call.book.asks)) = 2
    /\ call.action.side = "Buy"
    /\ call.fill.status = "Rejected"

----------------------------------------------------------------------------
(* A run in which the strategy places maker-flagged limit orders at every price *)
(* of the grid: some rest, some cross the opposite top                          *)

CrossSizes == {One, 3 * One}

LimitMakerAction(price, size) ==
    [Action0 EXCEPT !.side = "Buy", !.size = size, !.type = "Limit",
                    !.is_maker = TRUE, !.limit_price = price]

InitCross ==
    /\ om = OrderManager0
    /\ om_ret = OmRet0
    /\ call = Call0
    /\ replay = [Replay0 EXCEPT !.deltas = EngineDeltas, !.trades = EngineTrades]
    /\ eng = Engine0

CrossHold == Tick(HoldAction, LatencyBase)

CrossPlaceLimit ==
    /\ om.next_order_id <= MaxEngOrders
    /\ \E price \in Prices, size \in CrossSizes, latency \in Latencies :
          Tick(LimitMakerAction(price, size), latency)

CrossEnd == RunEnd

NextCross == CrossHold \/ CrossPlaceLimit \/ CrossEnd

SpecCross == InitCross /\ [][NextCross]_vars

\* A Buy limit at price reaches the best ask of book.
CrossesTop(price, book) == best_ask(book) > 0 /\ price >= best_ask(book)

\* The resting orders of the maker simulator that the step has added.
NewResting ==
    {i \in 1..Len(eng'.maker.orders) :
        \A j \in 1..Len(eng.maker.orders) :
            eng.maker.orders[j].order_id # eng'.maker.orders[i].order_id}

----------------------------------------------------------------------------
(* The run loop over a trade tape whose timestamps are free: before the book,   *)
(* on a book's timestamp, between books, past the last book, in any order       *)

MaxTrades == 3

TradeTimes == {T0 - StepMs, T0 + StepMs, T0 + ExpireMs, T0 + ExpireMs + StepMs}

TradeTapes ==
    { [i \in 1..MaxTrades |-> [ts_ms |-> ts[i], side |-> "Sell", price |-> Lo, size |-> 2 * One]] :
          ts \in [1..MaxTrades -> TradeTimes] }

InitTape ==
    /\ om = OrderManager0
    /\ om_ret = OmRet0
    /\ call = Call0
    /\ \E tape \in TradeTapes :
           replay = [Replay0 EXCEPT !.deltas = EngineDeltas, !.trades = tape]
    /\ eng = Engine0

TapeHold == Tick(HoldAction, LatencyBase)

TapePlaceMaker ==
    /\ om.next_order_id <= 1
    /\ Tick(MakerAction, LatencyBase)

TapeEnd == RunEnd

NextTape == TapeHold \/ TapePlaceMaker \/ TapeEnd

SpecTape == InitTape /\ [][NextTape]_vars

\* C15: every trade print is released to the maker simulator at most once, trades are
\* released in input order, and no trade with ts_ms greater than the now_ts of the
\* iteration is released in it.
TradeReleaseOrder ==
    /\ \A i, j \in DOMAIN eng.released :
           i < j => eng.released[i].index < eng.released[j].index
    /\ \A i \in DOMAIN eng.released :
           replay.trades[eng.released[i].index].ts_ms <= eng.released[i].now_ts

\* Two iterations have each released a trade and a third trade is still held back when
\* the stream ends.
TradeReleaseOrderWitness ==
    /\ eng.phase = "done"
    /\ Len(eng.released) = 2
    /\ eng.released[1].now_ts < eng.released[2].now_ts
    /\ replay.trade_cursor < Len(replay.trades)

----------------------------------------------------------------------------
(* The run loop started under every combination of --no_actions, --demo_notional, *)
(* --demo_only, --maker_demo and --maker_notional                                 *)

\* One unit at the middle price, and one at the lowest, in price x lots
DemoNotional == Mid * (One \div QtyStep)
MakerNotional == Lo * (One \div QtyStep)

CommandLines ==
    [no_actions : BOOLEAN, demo_notional : {0, DemoNotional}, demo_only : BOOLEAN,
     maker_demo : BOOLEAN, maker_notional : {0, MakerNotional}, adv_fatal_missing : {TRUE}]

InitDemo ==
    /\ om = OrderManager0
    /\ om_ret = OmRet0
    /\ call = Call0
    /\ replay = [Replay0 EXCEPT !.deltas = EngineDeltas, !.trades = EngineTrades]
    /\ \E flags \in CommandLines : eng = Started(flags)

DemoHold == Tick(HoldAction, LatencyBase)

DemoPlaceTaker ==
    /\ om.next_order_id <= MaxEngOrders
    /\ Tick(TakerAction, LatencyBase)

DemoEnd == RunEnd

NextDemo == DemoHold \/ DemoPlaceTaker \/ DemoEnd

SpecDemo == InitDemo /\ [][NextDemo]_vars

\* The run was started with --no_actions and with neither demo issuer switched on
PlainNoActions ==
    eng.flags.no_actions /\ eng.flags.demo_notional = 0 /\ ~eng.flags.maker_demo

\* No order placed, no fill or reject row, no position and no error
SilentRun ==
    /\ om.metrics.orders_placed = 0
    /\ om.orders = <<>>
    /\ eng.fill_rows = <<>>
    /\ eng.position = Position0
    /\ eng.pending = <<>>
    /\ eng.exit_code = 0

\* C19 as stated: a run started with --no_actions places no order and writes no fill
\* or reject row, whatever the other flags are.
NoActionsSilent == eng.flags.no_actions => SilentRun

\* C19: a run started with --no_actions and with neither --demo_notional above zero nor
\* --maker_demo places no order and writes no fill or reject row, whatever the stream
\* and the strategy do; its position stays flat and it ends with exit code 0.
NoActionsSilentWithoutDemo == PlainNoActions => SilentRun

\* Such a run has gone through the whole stream, the book populated on both sides, and
\* has ended.
NoActionsSilentWithoutDemoWitness ==
    /\ PlainNoActions
    /\ eng.phase = "done"
    /\ eng.ticks = Len(replay.deltas)
    /\ best_bid(replay) > 0 /\ best_ask(replay) > 0

----------------------------------------------------------------------------
(* The run loop with a strategy that buys and sells at the market over a stream whose *)
(* best ask moves, up to the PnL summary of main()                                    *)

MaxPnlOrders == 3

PnlDeltas ==
    << Delta(1, TRUE, T0, "Buy", Lo, 2 * One),
       Delta(2, FALSE, T0, "Sell", Hi, 2 * One),
       Delta(3, FALSE, T0 + StepMs, "Sell", Mid, 2 * One),
       Delta(4, FALSE, T0 + 2 * StepMs, "Buy", Lo, 3 * One),
       Delta(5, FALSE, T0 + 3 * StepMs, "Sell", Mid, 0),
       Delta(6, FALSE, T0 + 4 * StepMs, "Buy", Lo, 2 * One) >>

SellAction == [Action0 EXCEPT !.side = "Sell", !.size = 2 * One]

InitPnl ==
    /\ om = OrderManager0
    /\ om_ret = OmRet0
    /\ call = Call0
    /\ replay = [Replay0 EXCEPT !.deltas = PnlDeltas]
    /\ eng = Engine0

PnlHold == Tick(HoldAction, LatencyBase)

PnlBuy ==
    /\ om.next_order_id <= MaxPnlOrders
    /\ Tick(TakerAction, LatencyBase)

PnlSell ==
    /\ om.next_order_id <= MaxPnlOrders
    /\ Tick(SellAction, LatencyBase)

PnlEnd == RunEnd

NextPnl == PnlHold \/ PnlBuy \/ PnlSell \/ PnlEnd

SpecPnl == InitPnl /\ [][NextPnl]_vars

\* C20: the net_total a run reports is realized + unrealized - fees, the realized PnL
\* and the fees being those accumulated over its fills and unrealized being
\* qty x (mid - avg_price) at the mid of the last book, and a run whose identity check
\* fails ends with exit code 1.
PnlIdentity ==
    eng.summary.written =>
        /\ RatAdd(eng.summary.net_total, RatInt(eng.fees))
               = RatAdd(eng.position.realized_pnl, eng.summary.unrealized)
        /\ (best_bid(replay) > 0 /\ best_ask(replay) > 0) =>
               RatAdd(RatScale(eng.summary.unrealized, 2),
                      RatScale(eng.position.avg_price, 2 * Lots(eng.position.qty)))
                   = RatInt(Lots(eng.position.qty) * (best_bid(replay) + best_ask(replay)))
        /\ eng.summary.identity_ok \/ eng.exit_code = 1

\* A run has bought and sold, ends with an open position away from the mid, with
\* realized PnL and fees, and has reported its summary.
PnlIdentityWitness ==
    /\ eng.summary.written
    /\ eng.position.qty # 0
    /\ eng.position.realized_pnl.n # 0
    /\ eng.summary.unrealized.n # 0
    /\ eng.fees > 0
    /\ \E i, j \in DOMAIN eng.fill_rows :
           /\ eng.fill_rows[i].status = "Filled" /\ eng.fill_rows[i].side = "Buy"
           /\ eng.fill_rows[j].status = "Filled" /\ eng.fill_rows[j].side = "Sell"

----------------------------------------------------------------------------
(* MakerQueueSim called on its own: submit, cancel and on_book in any order, on_book *)
(* with any book, trade prints and advance of the clock from a small grid            *)

MaxMakerOrders == 2
MaxOnBook == 3

MakerBook(b, a) ==
    [ts_ms |-> T0, bids |-> [p \in Prices |-> IF p = Lo THEN b ELSE 0],
     asks |-> [p \in Prices |-> IF p = Hi THEN a ELSE 0]]

MakerBooks == {MakerBook(2 * One, 2 * One), MakerBook(One, 2 * One), MakerBook(2 * One, One)}

SellPrint == [ts_ms |-> T0, side |-> "Sell", price |-> Lo, size |-> 2 * One]
BuyPrint == [ts_ms |-> T0, side |-> "Buy", price |-> Hi, size |-> 3 * One]
MakerTrades == {<<>>, <<SellPrint>>, <<SellPrint, BuyPrint>>, <<SellPrint, SellPrint>>}

\* What the last call was, the clock, the resting orders before it and what it returned;
\* for on_book also the book it was given, for cancel the id; cancelled are the ids
\* of submitted orders that cancel has been called with so far
MakerCall(op, now_ts, before, fills) ==
    [op |-> op, now_ts |-> now_ts, before |-> before, fills |-> fills, calls |-> 0,
     book |-> Book0, id |-> 0, cancelled |-> {}]

InitMaker ==
    /\ om = OrderManager0
    /\ om_ret = OmRet0
    /\ call = MakerCall("start", T0, <<>>, <<>>)
    /\ replay = Replay0
    /\ eng = Engine0

MakerSubmit ==
    /\ call.op # "none"
    /\ eng.action_seq < MaxMakerOrders
    /\ \E side \in Sides, size \in {One, 2 * One}, book \in MakerBooks :
          /\ eng' = [eng EXCEPT !.action_seq = @ + 1,
                                !.maker = submit(@, [Action0 EXCEPT !.side = side, !.size = size,
                                                                    !.type = "Limit", !.is_maker = TRUE,
                                                                    !.limit_price = IF side = "Buy" THEN Lo ELSE Hi,
                                                                    !.order_id = eng.action_seq + 1],
                                                 book, call.now_ts)]
          /\ call' = [MakerCall("submit", call.now_ts, eng.maker.orders, <<>>)
                          EXCEPT !.calls = call.calls, !.cancelled = call.cancelled]
    /\ UNCHANGED <<om, om_ret, replay>>

MakerCancel ==
    /\ call.op # "none"
    /\ \E id \in 1..MaxMakerOrders :
          /\ eng' = [eng EXCEPT !.maker = maker_cancel(@, id)]
          /\ call' = [MakerCall("cancel", call.now_ts, eng.maker.orders, <<>>)
                          EXCEPT !.calls = call.calls, !.id = id,
                                 !.cancelled = IF id <= eng.action_seq THEN call.cancelled \cup {id}
                                               ELSE call.cancelled]
    /\ call' # call \/ eng' # eng
    /\ UNCHANGED <<om, om_ret, replay>>

MakerOnBook ==
    /\ call.op # "none"
    /\ call.calls < MaxOnBook
    /\ \E book \in MakerBooks, trades \in MakerTrades, dt \in {StepMs, ExpireMs} :
          /\ eng' = [eng EXCEPT !.maker = on_book(@, book, call.now_ts + dt, trades)[1]]
          /\ call' = [MakerCall("on_book", call.now_ts + dt, eng.maker.orders,
                                on_book(eng.maker, book, call.now_ts + dt, trades)[2])
                          EXCEPT !.calls = call.calls + 1, !.book = book,
                                 !.cancelled = call.cancelled]
    /\ UNCHANGED <<om, om_ret, replay>>

NextMaker == MakerSubmit \/ MakerCancel \/ MakerOnBook

SpecMaker == InitMaker /\ [][NextMaker]_vars

\* The resting order a fill of the last on_book call was emitted for
RestingBefore(order_id) ==
    {call.before[i] : i \in {j \in DOMAIN call.before : call.before[j].order_id = order_id}}

\* C21: no on_book call emits a fill for a resting order whose expire_ts is at or
\* before the now_ts of the call.
ExpiredNeverFills ==
    call.op = "on_book" =>
        \A i \in DOMAIN call.fills :
            \A o \in RestingBefore(call.fills[i].order_id) : call.now_ts < o.expire_ts

\* C32: in the fill list of every on_book call each trade-driven fill precedes each
\* depth-driven fill, and the trade-driven fills follow the order of the trade prints.
TradesBeforeDepth ==
    call.op = "on_book" =>
        \A i, j \in DOMAIN call.fills :
            i < j =>
                /\ ~(call.fills[i].via = "depth" /\ call.fills[j].via = "trade")
                /\ (call.fills[i].via = "trade" /\ call.fills[j].via = "trade") =>
                       call.fills[i].print <= call.fills[j].print

\* The quantity the book given to the previous on_book call showed at the price of a
\* resting order, 0 when there was no such call or no such level
SeenBefore(ord) ==
    IF ord.side = "Buy" THEN eng.maker.last_bids[ord.price] ELSE eng.maker.last_asks[ord.price]

\* C33: a depth-driven fill of an order is at most the decrease of the visible quantity
\* at the order's price level since the previous on_book call, so there is none when
\* the level stayed, grew or is seen for the first time.
DepthFillBounded ==
    [][call'.op = "on_book" =>
          \A i \in DOMAIN call'.fills :
              call'.fills[i].via = "depth" =>
                  \A j \in DOMAIN call'.before :
                      call'.before[j].order_id = call'.fills[i].order_id =>
                          call'.fills[i].filled_qty
                              <= SeenBefore(call'.before[j])
                                     - level_qty(call'.book, call'.before[j].price,
                                                 call'.before[j].side)]_vars

\* A call with the bid level down from 2 to 1 gave a resting buy a depth-driven fill.
DepthFillBoundedWitness ==
    /\ call.op = "on_book"
    /\ call.book.bids[Lo] = One
    /\ \E i \in DOMAIN call.fills : /\ call.fills[i].via = "depth"
                                     /\ call.fills[i].side = "Buy"
                                     /\ call.fills[i].filled_qty > 0

\* C34: cancel(order_id) leaves the other resting orders as they were and none with
\* that id, which is no change at all when the id was absent; and no later on_book
\* call emits a fill carrying the id of an order cancel was called with.
MakerCancelContract ==
    [][/\ call'.op = "cancel" =>
              /\ eng'.maker.orders = SelectSeq(eng.maker.orders,
                                               LAMBDA o : o.order_id # call'.id)
              /\ (\A k \in DOMAIN eng.maker.orders :
                      eng.maker.orders[k].order_id # call'.id) => eng'.maker = eng.maker
       /\ call'.op = "on_book" =>
              \A i \in DOMAIN call'.fills : call'.fills[i].order_id \notin call.cancelled]_vars

\* The second of two resting orders was cancelled and a later on_book call filled the
\* first.
MakerCancelContractWitness ==
    /\ call.op = "on_book"
    /\ call.cancelled = {2}
    /\ Len(call.fills) > 0
    /\ \A i \in DOMAIN call.fills : call.fills[i].order_id = 1

----------------------------------------------------------------------------
(* RulesEngine::apply called on its own, on limit prices on and off the tick grid *)

RulePrices == (Lo - TickSize \div 2) .. (Hi + TickSize \div 2)

RuleBooks ==
    {[ts_ms |-> T0, bids |-> [p \in Prices |-> IF p = b THEN One ELSE 0],
      asks |-> [p \in Prices |-> IF p = a THEN One ELSE 0]] :
         b \in {0, Lo, Mid}, a \in {0, Mid, Hi}}

InitRules ==
    /\ om = OrderManager0
    /\ om_ret = OmRet0
    /\ call = Call0
    /\ replay = Replay0
    /\ eng = Engine0

RulesApply ==
    /\ call.op = "none"
    /\ \E side \in Sides, price \in RulePrices, is_maker \in BOOLEAN, book \in RuleBooks :
          LET action == [Action0 EXCEPT !.side = side, !.size = One, !.type = "Limit",
                                        !.limit_price = price, !.is_maker = is_maker]
          IN call' = [op |-> "rules_apply", action |-> action, book |-> book,
                      res |-> rules_apply(action, book)]
    /\ UNCHANGED <<om, om_ret, replay, eng>>

NextRules == RulesApply

SpecRules == InitRules /\ [][NextRules]_vars

----------------------------------------------------------------------------
(* The run loop over a stream on which a resting maker order is filled by a depth    *)
(* decrease early and late, and whose book loses its asks when the horizon of the    *)
(* first fill is reached; --adv_fatal_missing is 0 or 1                              *)

MaxAdvOrders == 2

AdvDeltas ==
    << Delta(1, TRUE, T0, "Buy", Lo, 2 * One),
       Delta(2, FALSE, T0, "Sell", Mid, 2 * One),
       Delta(3, FALSE, T0 + StepMs, "Buy", Lo, One),
       Delta(4, FALSE, T0 + StepMs + AdvHorizonMs \div 2, "Buy", Lo, 2 * One),
       Delta(5, FALSE, T0 + StepMs + AdvHorizonMs, "Sell", Mid, 0),
       Delta(6, FALSE, T0 + 2 * StepMs + AdvHorizonMs, "Sell", Mid, One),
       Delta(7, FALSE, T0 + 3 * StepMs + AdvHorizonMs, "Buy", Lo, One) >>

InitAdv ==
    /\ om = OrderManager0
    /\ om_ret = OmRet0
    /\ call = Call0
    /\ replay = [Replay0 EXCEPT !.deltas = AdvDeltas]
    /\ \E fatal \in BOOLEAN : eng = Started([Flags0 EXCEPT !.adv_fatal_missing = fatal])

AdvHold == Tick(HoldAction, LatencyBase)

AdvPlaceMaker ==
    /\ om.next_order_id <= MaxAdvOrders
    /\ Tick(MakerAction, LatencyBase)

AdvCancel == \E t \in 1..MaxAdvOrders : Tick(CancelAction(t), LatencyBase)

AdvEnd == RunEnd

NextAdv == AdvHold \/ AdvPlaceMaker \/ AdvCancel \/ AdvEnd

SpecAdv == InitAdv /\ [][NextAdv]_vars

\* The rows of maker fills
MakerRows == {i \in DOMAIN eng.fill_rows :
                 eng.fill_rows[i].status = "Filled" /\ eng.fill_rows[i].liquidity = "Maker"}

\* Each maker fill has one sample, pending or resolved, and an unresolved sample at
\* the end of the stream is fatal under adv_fatal_missing
AdvOncePerFill ==
    /\ \A i \in MakerRows :
           Cardinality({k \in DOMAIN eng.pending_maker_adv :
                            eng.pending_maker_adv[k].fill_row_index = i})
             + Cardinality({k \in DOMAIN eng.adv_resolved :
                                eng.adv_resolved[k].fill_row_index = i}) = 1
    /\ \A k \in DOMAIN eng.adv_resolved :
           eng.adv_resolved[k].ts_ms >= eng.adv_resolved[k].target_ts_ms
    /\ (eng.phase = "done" /\ eng.pending_maker_adv # <<>> /\ eng.flags.adv_fatal_missing)
           => eng.exit_code = 1

\* C23 as stated: a sample is resolved exactly once, never before its target_ts, and on
\* the first book with ts_ms at or past target_ts.
AdvResolvedOnFirstBook ==
    /\ AdvOncePerFill
    /\ \A k \in DOMAIN eng.adv_resolved : eng.adv_resolved[k].missed = 0

\* C23: a sample is resolved exactly once, never on a book with ts_ms below its
\* target_ts, and on the first book with ts_ms at or past target_ts that has both a
\* best bid and a best ask; a run that ends with a sample unresolved under
\* adv_fatal_missing ends with exit code 1.
AdvResolvedOnFirstBookWithMid ==
    /\ AdvOncePerFill
    /\ \A k \in DOMAIN eng.adv_resolved :
           eng.adv_resolved[k].had_mid /\ eng.adv_resolved[k].missed_mid = 0
    /\ \A k \in DOMAIN eng.pending_maker_adv : eng.pending_maker_adv[k].missed_mid = 0

\* A sample was carried over a book without asks that had reached its target and was
\* resolved on the next book, and the run ended fatally on a later sample.
AdvResolvedOnFirstBookWithMidWitness ==
    /\ eng.phase = "done"
    /\ eng.exit_code = 1
    /\ eng.flags.adv_fatal_missing
    /\ eng.pending_maker_adv # <<>>
    /\ \E k \in DOMAIN eng.adv_resolved : eng.adv_resolved[k].missed = 1

----------------------------------------------------------------------------
(* OrderManager driven directly: every call with every input, in any order, until *)
(* has_error() is raised, on which every caller stops the run                    *)

Ids == 1..(MaxOrders + 1)
FillQtys == {Half, One + (OverfillTol \div 2), One + OverfillTol + 1}
ExpireTs == {0, MaxTs}
Nows == 1..MaxTs

InitOM ==
    /\ om = OrderManager0
    /\ om_ret = OmRet0
    /\ call = Call0
    /\ replay = Replay0
    /\ eng = Engine0

OmPlace ==
    /\ ~om.error
    /\ om.next_order_id <= MaxOrders
    /\ \E sd \in Sides, e \in ExpireTs :
          LET a == [side |-> sd, type |-> "Limit", limit_price |-> MinOf(Prices),
                    size |-> One, target_order_id |-> 0]
          IN /\ om' = place(om, a, MinOf(Nows), e)
             /\ om_ret' = [OmRet0 EXCEPT !.op = "place", !.id = om.next_order_id,
                                         !.side = sd, !.qty = One, !.success = TRUE]
    /\ UNCHANGED <<replay, eng, call>>

OmCancel ==
    /\ ~om.error
    /\ om.metrics.orders_cancel_noop < MaxNoop
    /\ \E id \in Ids :
          LET r == cancel(om, id, MinOf(Nows))
          IN /\ om' = r[1]
             /\ om_ret' = [OmRet0 EXCEPT !.op = "cancel", !.id = id,
                                         !.success = r[2], !.noop = r[3]]
    /\ UNCHANGED <<replay, eng, call>>

OmReplace ==
    /\ ~om.error
    /\ om.metrics.orders_replace_noop < MaxNoop
    /\ \E id \in Ids, np \in {MaxOf(Prices)}, nq \in {0, Half} :
          LET r == replace(om, id, np, nq, MinOf(Nows), MaxTs)
          IN /\ r[1].next_order_id <= MaxOrders + 1
             /\ om' = r[1]
             /\ om_ret' = [OmRet0 EXCEPT !.op = "replace", !.id = id,
                                         !.qty = nq, !.success = r[2], !.noop = r[3]]
    /\ UNCHANGED <<replay, eng, call>>

OmApplyFill ==
    /\ ~om.error
    /\ \E id \in Ids, sd \in Sides, q \in FillQtys :
          LET r == apply_fill(om, [order_id |-> id, side |-> sd, filled_qty |-> q], MinOf(Nows))
          IN /\ om' = r[1]
             /\ om_ret' = [OmRet0 EXCEPT !.op = "apply_fill", !.id = id,
                                         !.side = sd, !.qty = q,
                                         !.success = r[2]]
    /\ UNCHANGED <<replay, eng, call>>

OmMarkRejected ==
    /\ ~om.error
    /\ \E id \in Ids :
          /\ om' = mark_rejected(om, id, MinOf(Nows))
          /\ om_ret' = [OmRet0 EXCEPT !.op = "mark_rejected", !.id = id]
    /\ UNCHANGED <<replay, eng, call>>

OmExpire ==
    /\ ~om.error
    /\ \E now \in Nows :
          /\ \E order \in IterationOrders(om) : om' = expire_orders(om, now, order)
          /\ om_ret' = [OmRet0 EXCEPT !.op = "expire_orders", !.qty = now]
    /\ UNCHANGED <<replay, eng, call>>

NextOM == OmPlace \/ OmCancel \/ OmReplace \/ OmApplyFill \/ OmMarkRejected \/ OmExpire

SpecOM == InitOM /\ [][NextOM]_vars

\* C3: terminal statuses are absorbing -- an order that is Filled, Cancelled, Expired,
\* Replaced or Rejected keeps that status and its filled_qty under every later
\* OrderManager operation.
TerminalAbsorbing ==
    [][\A i \in DOMAIN om.orders :
          om.orders[i].status \in TerminalStatuses =>
              /\ om'.orders[i].status = om.orders[i].status
              /\ om'.orders[i].filled_qty = om.orders[i].filled_qty]_vars

\* The refusal conditions the contract gives apply_fill: unknown id, side mismatch,
\* terminal status, cumulative filled above qty by more than 1e-9 (below the grid).
MustRefuse(m, fill) ==
    \/ ~Known(m, fill.order_id)
    \/ fill.side # m.orders[fill.order_id].side
    \/ m.orders[fill.order_id].status \in TerminalStatuses
    \/ m.orders[fill.order_id].filled_qty + fill.filled_qty > m.orders[fill.order_id].qty

\* C4: apply_fill returns false, raises the error flag and leaves the order alone in
\* each refusal case; otherwise it accepts and moves the order to Filled when
\* filled >= qty (within 1e-9), else to Partial.
ApplyFillContract ==
    [][om_ret'.op = "apply_fill" =>
          LET fill == [order_id |-> om_ret'.id, side |-> om_ret'.side,
                       filled_qty |-> om_ret'.qty]
          IN IF MustRefuse(om, fill)
             THEN /\ ~om_ret'.success
                  /\ om'.error
                  /\ om'.orders = om.orders
             ELSE /\ om_ret'.success
                  /\ om'.orders[fill.order_id].filled_qty =
                         om.orders[fill.order_id].filled_qty + fill.filled_qty
                  /\ om'.orders[fill.order_id].status =
                         IF om'.orders[fill.order_id].filled_qty >= om.orders[fill.order_id].qty
                         THEN "Filled" ELSE "Partial"]_vars

\* C10: cancel succeeds only for an existing order in New or Partial, which becomes
\* Cancelled with orders_cancelled incremented; on a terminal or unknown order it is
\* a noop that changes no order and increments orders_cancel_noop.
CancelContract ==
    [][om_ret'.op = "cancel" =>
          IF Known(om, om_ret'.id) /\ om.orders[om_ret'.id].status \in OpenStatuses
          THEN /\ om_ret'.success /\ ~om_ret'.noop
               /\ om'.orders[om_ret'.id].status = "Cancelled"
               /\ om'.metrics.orders_cancelled = om.metrics.orders_cancelled + 1
          ELSE /\ ~om_ret'.success /\ om_ret'.noop
               /\ om'.orders = om.orders
               /\ om'.metrics.orders_cancel_noop = om.metrics.orders_cancel_noop + 1]_vars

\* C11: replace is legal only from New or Partial -- on success the old order becomes
\* Replaced with replaced_by the new id, and exactly one order is created with a fresh
\* id, status New, the old side and type, and replaced_from the old id; on a terminal
\* or unknown order it creates nothing and increments orders_replace_noop.
ReplaceContract ==
    [][om_ret'.op = "replace" =>
          IF Known(om, om_ret'.id) /\ om.orders[om_ret'.id].status \in OpenStatuses
          THEN /\ om_ret'.success /\ ~om_ret'.noop
               /\ Len(om'.orders) = Len(om.orders) + 1
               /\ om'.orders[om_ret'.id].status = "Replaced"
               /\ om'.orders[om_ret'.id].replaced_by = om.next_order_id
               /\ om'.orders[om.next_order_id].order_id = om.next_order_id
               /\ om'.orders[om.next_order_id].status = "New"
               /\ om'.orders[om.next_order_id].side = om.orders[om_ret'.id].side
               /\ om'.orders[om.next_order_id].type = om.orders[om_ret'.id].type
               /\ om'.orders[om.next_order_id].replaced_from = om_ret'.id
          ELSE /\ ~om_ret'.success /\ om_ret'.noop
               /\ om'.orders = om.orders
               /\ om'.metrics.orders_replace_noop = om.metrics.orders_replace_noop + 1]_vars

----------------------------------------------------------------------------
(* The position limit: a two-sided book with six units on the ask, the       *)
(* strategy sending market buys of three units, up to two of them in flight   *)

MaxRiskOrders == 3

RiskDeltas ==
    << Delta(1, TRUE, T0, "Buy", Lo, 2 * One),
       Delta(2, FALSE, T0, "Sell", Mid, 6 * One),
       Delta(3, FALSE, T0 + StepMs, "Buy", Lo, One),
       Delta(4, FALSE, T0 + 2 * StepMs, "Buy", Lo, 2 * One),
       Delta(5, FALSE, T0 + 3 * StepMs, "Buy", Lo, One),
       Delta(6, FALSE, T0 + 4 * StepMs, "Buy", Lo, 2 * One),
       Delta(7, FALSE, T0 + 5 * StepMs, "Buy", Lo, One) >>

RiskBuyAction == [Action0 EXCEPT !.side = "Buy", !.size = 3 * One]

InitRisk ==
    /\ om = OrderManager0
    /\ om_ret = OmRet0
    /\ call = Call0
    /\ replay = [Replay0 EXCEPT !.deltas = RiskDeltas]
    /\ eng = Engine0

RiskHold == Tick(HoldAction, LatencyBase)

RiskBuy ==
    /\ om.next_order_id <= MaxRiskOrders
    /\ \E latency \in Latencies : Tick(RiskBuyAction, latency)

RiskEnd == RunEnd

NextRisk == RiskHold \/ RiskBuy \/ RiskEnd

SpecRisk == InitRisk /\ [][NextRisk]_vars

\* C25: the absolute filled position never exceeds max_position, however many
\* accepted actions are still pending when an action is validated.
PositionWithinLimit == Abs(eng.position.qty) <= MaxPosition

\* C28: expire_orders(now_ts) moves to Expired exactly the New or Partial orders with
\* expire_ts > 0 and now_ts >= expire_ts, leaves every other order as it was, and
\* orders_expired is the number of Expired orders: none is counted twice.
ExpireContract ==
    [][om_ret'.op = "expire_orders" =>
          /\ DOMAIN om'.orders = DOMAIN om.orders
          /\ \A i \in DOMAIN om.orders :
                 IF /\ om.orders[i].status \in OpenStatuses
                    /\ om.orders[i].expire_ts > 0
                    /\ om_ret'.qty >= om.orders[i].expire_ts
                 THEN om'.orders[i] = [om.orders[i] EXCEPT !.status = "Expired"]
                 ELSE om'.orders[i] = om.orders[i]
          /\ om'.metrics.orders_expired =
                 Cardinality({i \in DOMAIN om'.orders : om'.orders[i].status = "Expired"})]_vars

\* After a sweep: one order Expired and counted once, a Partial order without an
\* expiry left as it was.
ExpireContractWitness ==
    /\ om_ret.op = "expire_orders"
    /\ om.metrics.orders_expired = 1
    /\ \E i, j \in DOMAIN om.orders :
           /\ om.orders[i].status = "Expired"
           /\ om.orders[j].status = "Partial"
           /\ om.orders[j].expire_ts = 0

----------------------------------------------------------------------------
(* RiskEngine::update called with a sequence of fills of either side, at any price of *)
(* the grid, of one to three units, from a flat position                              *)

MaxFills == 3

FillSizes == {One, 2 * One, 3 * One}

InitPosition ==
    /\ om = OrderManager0
    /\ om_ret = OmRet0
    /\ call = [op |-> "none", n |-> 0, before |-> Position0, position |-> Position0,
               fill |-> FillRejected("Hold", "None")]
    /\ replay = Replay0
    /\ eng = Engine0

PositionUpdate ==
    /\ call.n < MaxFills
    /\ \E side \in {"Buy", "Sell"}, price \in Prices, qty \in FillSizes :
          call' = [op |-> "update", n |-> call.n + 1, before |-> call.position,
                   fill |-> FillFilled(side, price, qty, FALSE, "Taker"),
                   position |-> risk_update(call.position,
                                            FillFilled(side, price, qty, FALSE, "Taker"))]
    /\ UNCHANGED <<om, om_ret, replay, eng>>

NextPosition == PositionUpdate

SpecPosition == InitPosition /\ [][NextPosition]_vars

\* The fill of the last update is on the side opposite to the position it met.
Reducing ==
    \/ call.before.qty > 0 /\ call.fill.side = "Sell"
    \/ call.before.qty < 0 /\ call.fill.side = "Buy"

\* The fill of the last update has turned a long position short or a short one long.
Flipped ==
    \/ call.before.qty > 0 /\ call.position.qty < 0
    \/ call.before.qty < 0 /\ call.position.qty > 0

FlipAvgIsFillPrice ==
    (call.op = "update" /\ Flipped) =>
        /\ call.position.realized_pnl
               = RatAdd(call.before.realized_pnl,
                        RatScale(RatSub(RatInt(call.fill.price), call.before.avg_price),
                                 Lots(call.before.qty)))
        /\ call.position.avg_price = RatInt(call.fill.price)

----------------------------------------------------------------------------
(* RingBuffer with a producer thread in push() and a consumer thread in pop(), each *)
(* atomic load, store and slot access a step of its own; the producer pushes the    *)
(* values 1, 2, ... through a ring small enough to wrap                             *)

RingCapacity == 3
MaxPushes == 5

RingIncrement(idx) == (idx + 1) % RingCapacity

\* push() without its test for a full ring
Full_never(next, tail) == FALSE

\* next == tail_.load(acquire) in push(): the ring is full
Full(next, tail) == next = tail

\* Items between tail_ and head_.
Buffered == (call.head - call.tail + RingCapacity) % RingCapacity

InitRing ==
    /\ om = OrderManager0
    /\ om_ret = OmRet0
    /\ call = [op |-> "ring", data |-> [i \in 0..(RingCapacity - 1) |-> 0],
               head |-> 0, tail |-> 0,
               ppc |-> "idle", p_head |-> 0, p_ret |-> "none", p_size |-> 0, pushed |-> 0,
               cpc |-> "idle", c_tail |-> 0, c_value |-> 0, c_ret |-> "none", c_size |-> 0,
               out |-> <<>>, p_failed |-> FALSE, c_emptied |-> FALSE]
    /\ replay = Replay0
    /\ eng = Engine0

\* push(): head_.load(relaxed), tail_.load(acquire) and the test; return false when full
PushTest ==
    /\ call.ppc = "idle"
    /\ call.pushed < MaxPushes
    /\ call' = [call EXCEPT !.p_head = call.head,
                            !.p_size = Buffered,
                            !.p_ret = IF Full(RingIncrement(call.head), call.tail)
                                      THEN "false" ELSE "none",
                            !.p_failed = @ \/ Full(RingIncrement(call.head), call.tail),
                            !.ppc = IF Full(RingIncrement(call.head), call.tail)
                                    THEN "idle" ELSE "write"]
    /\ UNCHANGED <<om, om_ret, replay, eng>>

\* push(): data_[head] = value
PushWrite ==
    /\ call.ppc = "write"
    /\ call' = [call EXCEPT !.data[call.p_head] = call.pushed + 1, !.ppc = "store"]
    /\ UNCHANGED <<om, om_ret, replay, eng>>

\* push(): head_.store(next, release); return true
PushStore ==
    /\ call.ppc = "store"
    /\ call' = [call EXCEPT !.head = RingIncrement(call.p_head),
                            !.pushed = @ + 1, !.p_ret = "true", !.ppc = "idle"]
    /\ UNCHANGED <<om, om_ret, replay, eng>>

\* pop(): tail_.load(relaxed), head_.load(acquire) and the test; nullopt when empty
PopTest ==
    /\ call.cpc = "idle"
    /\ call' = [call EXCEPT !.c_tail = call.tail,
                            !.c_size = Buffered,
                            !.c_ret = IF call.tail = call.head THEN "empty" ELSE "none",
                            !.c_emptied = @ \/ call.tail = call.head,
                            !.cpc = IF call.tail = call.head THEN "idle" ELSE "read"]
    /\ UNCHANGED <<om, om_ret, replay, eng>>

\* pop(): value = data_[tail]
PopRead ==
    /\ call.cpc = "read"
    /\ call' = [call EXCEPT !.c_value = call.data[call.c_tail], !.cpc = "store"]
    /\ UNCHANGED <<om, om_ret, replay, eng>>

\* pop(): tail_.store(increment(tail), release); return value
PopStore ==
    /\ call.cpc = "store"
    /\ call' = [call EXCEPT !.tail = RingIncrement(call.c_tail),
                            !.out = Append(@, call.c_value),
                            !.c_ret = "value", !.cpc = "idle"]
    /\ UNCHANGED <<om, om_ret, replay, eng>>

NextRing == PushTest \/ PushWrite \/ PushStore \/ PopTest \/ PopRead \/ PopStore

SpecRing == InitRing /\ [][NextRing]_vars

\* The slots from tail_ up to head_, oldest first.
RECURSIVE Slots(_, _)
Slots(from, n) ==
    IF n = 0 THEN <<>> ELSE <<call.data[from]>> \o Slots(RingIncrement(from), n - 1)

\* 1, 2, ..., n
Counting(n) == [i \in 1..n |-> i]

\* C39: with the producer in push() and the consumer in pop() interleaved step by step,
\* the values popped are the values pushed, in push order, none lost, repeated or
\* overwritten, the ones not yet popped waiting in their slots; a push returns false,
\* the ring untouched, exactly when it finds capacity - 1 items buffered, and a pop
\* returns empty exactly when it finds none; the two never touch one slot at a time.
RingDeliversInOrder ==
    /\ [](/\ call.out = Counting(Len(call.out))
          /\ call.out \o Slots(call.tail, Buffered) = Counting(call.pushed)
          /\ Buffered <= RingCapacity - 1
          /\ call.p_ret = "false" => call.p_size = RingCapacity - 1
          /\ (call.p_ret = "true" \/ call.ppc # "idle") => call.p_size < RingCapacity - 1
          /\ call.c_ret = "empty" => call.c_size = 0
          /\ (call.c_ret = "value" \/ call.cpc # "idle") => call.c_size > 0
          /\ ~(call.ppc = "write" /\ call.cpc = "read" /\ call.p_head = call.c_tail))
    /\ [][(/\ call.ppc = "idle" /\ call'.ppc = "idle" /\ call'.p_ret = "false"
           /\ call'.cpc = call.cpc /\ call'.c_ret = call.c_ret
           /\ call'.c_size = call.c_size) =>
              /\ call'.data = call.data
              /\ call'.head = call.head
              /\ call'.tail = call.tail]_vars

\* All values have gone through the ring in order, the ring having wrapped, a push
\* having failed on a full ring and a pop having found it empty.
RingDeliversInOrderWitness ==
    /\ call.op = "ring"
    /\ Len(call.out) = MaxPushes
    /\ MaxPushes > RingCapacity
    /\ call.p_failed
    /\ call.c_emptied

----------------------------------------------------------------------------
(* The counters of OrderMetrics against the statuses of the orders *)

\* The number of orders of m in one of statuses.
InStatus(m, statuses) ==
    Cardinality({id \in DOMAIN m.orders : m.orders[id].status \in statuses})

\* C40: orders_placed equals the number of New or Partial orders plus orders_cancelled,
\* orders_replaced, orders_rejected, orders_expired and the number of Filled orders,
\* and lifetime_samples equals the number of orders in a terminal status.
MetricsAccounting ==
    /\ om.metrics.orders_placed
           = InStatus(om, OpenStatuses) + om.metrics.orders_cancelled
               + om.metrics.orders_replaced + om.metrics.orders_rejected
               + om.metrics.orders_expired + InStatus(om, {"Filled"})
    /\ om.metrics.lifetime_samples = InStatus(om, TerminalStatuses)

====
